---- MODULE Spec2Model ----
(***************************************************************************)
(* simplevectors: svector::Vector<D, T> (core/vector.hpp) with the class   *)
(* operators (SVECTOR_USE_CLASS_OPERATORS) and svector::Vector3D           *)
(* (core/vector3d.hpp).                                                    *)
(*                                                                         *)
(* One vector object `m_components` of dimension D and component type T is *)
(* constructed, read, combined with operands and mutated in place; a       *)
(* second object of the same type, `other_components`, is what it is       *)
(* copied from.  Every                                                     *)
(* member function is an operator translated from its body (loops are      *)
(* recursive operators over the loop index); every action applies one      *)
(* member function to the object and records the call in `op`, its         *)
(* operands in `args` and what it returned in `ret`.                       *)
(*                                                                         *)
(* Scalars.  A value of T is a pair <<n, d>>:                              *)
(*   T = "double"         n/d in lowest terms, d > 0; the IEEE-754 special *)
(*                        values are <<1,0>> (+inf), <<-1,0>> (-inf) and   *)
(*                        <<0,0>> (NaN).  Arithmetic on finite values is   *)
(*                        exact (rounding, signed zero and exponent range  *)
(*                        are not modelled); on the special values it      *)
(*                        follows IEEE-754.  std::sqrt of a non-square q   *)
(*                        is the symbolic value <<n, d, 2>>.  The double   *)
(*                        -0.0 is <<0,-1>>; it is a component only where   *)
(*                        Vector2D::angle() is called.                     *)
(*   T = "unsigned char"  <<n, 1>> with 0 <= n < 2^8; operands are         *)
(*                        promoted to int and the result is reduced        *)
(*                        modulo 2^8 when it is stored into a T.           *)
(* Component i of the C++ array is element i + 1 of the sequence.          *)
(***************************************************************************)
EXTENDS Integers, Sequences, FiniteSets, TLC

VARIABLES T, D, m_components, other_components, op, args, ret, steps

vars == <<T, D, m_components, other_components, op, args, ret, steps>>

\* ------------------------------------------------------------------ bounds
MaxDim == 2
MaxSteps == 2
\* longest chain v.rotate<..>(..).rotate<..>(..)... in one expression
MaxChain == 3

\* --------------------------------------------------------- scalar type T
Types == {"double", "unsigned char"}

UCharModulus == 2^8

NaN == <<0, 0>>
Inf == <<1, 0>>
NInf == <<-1, 0>>

R(n) == <<n, 1>>

Abs(n) == IF n < 0 THEN -n ELSE n

Sign(n) == IF n < 0 THEN -1 ELSE IF n = 0 THEN 0 ELSE 1

RECURSIVE GCD(_, _)
GCD(a, b) == IF b = 0 THEN a ELSE GCD(b, a % b)

\* n/d (d # 0) in lowest terms with a positive denominator
Norm(n, d) ==
  LET g == GCD(Abs(n), Abs(d))
      s == IF d < 0 THEN -1 ELSE 1
  IN  <<(s * n) \div g, (s * d) \div g>>

IsNaN(x) == x = NaN

IsInfinite(x) == Len(x) = 2 /\ x[2] = 0 /\ x[1] # 0

IsFinite(x) == Len(x) = 2 /\ x[2] # 0

\* the literal 0 converted to T (fill(0), T result = 0)
Zero == R(0)

\* an integer literal or int value converted to T
Convert(t, n) == IF t = "unsigned char" THEN R(n % UCharModulus) ELSE R(n)

\* x + y, stored into a T
TAdd(t, x, y) ==
  IF t = "unsigned char" THEN R((x[1] + y[1]) % UCharModulus)
  ELSE IF IsNaN(x) \/ IsNaN(y) THEN NaN
  ELSE IF IsInfinite(x) /\ IsInfinite(y) THEN (IF x = y THEN x ELSE NaN)
  ELSE IF IsInfinite(x) THEN x
  ELSE IF IsInfinite(y) THEN y
  ELSE Norm(x[1] * y[2] + y[1] * x[2], x[2] * y[2])

\* -x, stored into a T
TNeg(t, x) ==
  IF t = "unsigned char" THEN R((-x[1]) % UCharModulus)
  ELSE <<-x[1], x[2]>>

\* x - y, stored into a T
TSub(t, x, y) ==
  IF t = "unsigned char" THEN R((x[1] - y[1]) % UCharModulus)
  ELSE TAdd(t, x, TNeg(t, y))

\* x * y, stored into a T (of symbolic square roots only the square x * x
\* is computed: magn() of a normalized vector)
TMul(t, x, y) ==
  IF t = "unsigned char" THEN R((x[1] * y[1]) % UCharModulus)
  ELSE IF IsNaN(x) \/ IsNaN(y) THEN NaN
  ELSE IF Len(x) = 3 /\ x = y THEN <<Abs(x[1]), x[2]>>
  ELSE IF IsInfinite(x) \/ IsInfinite(y)
       THEN (IF x[1] = 0 \/ y[1] = 0 THEN NaN ELSE <<Sign(x[1]) * Sign(y[1]), 0>>)
  ELSE Norm(x[1] * y[1], x[2] * y[2])

ISqrt(n) == CHOOSE r \in 0..n : r * r <= n /\ (r + 1) * (r + 1) > n

IsSquare(n) == ISqrt(n) * ISqrt(n) = n

\* the double x / sqrt(y[1]/y[2]) for a rational or infinite x and a
\* symbolic square root y: sign(x) * sqrt(x^2 * y[2] / y[1]), symbolic
\* again (the sign is kept on the numerator) unless it is rational
DivBySqrt(x, y) ==
  IF IsInfinite(x) THEN x
  ELSE IF x[1] = 0 THEN <<0, 1>>
  ELSE LET q == Norm(x[1] * x[1] * y[2], x[2] * x[2] * y[1])
       IN  IF IsSquare(q[1]) /\ IsSquare(q[2])
           THEN <<Sign(x[1]) * ISqrt(q[1]), ISqrt(q[2])>>
           ELSE <<Sign(x[1]) * q[1], q[2], 2>>

\* x / y, stored into a T.  An integral division by zero has no defined
\* result: the actions never pass y = 0 for an integral T.
TDiv(t, x, y) ==
  IF t = "unsigned char" THEN R(x[1] \div y[1])
  ELSE IF IsNaN(x) \/ IsNaN(y) THEN NaN
  ELSE IF Len(y) = 3 THEN DivBySqrt(x, y)
  ELSE IF IsInfinite(x) /\ IsInfinite(y) THEN NaN
  ELSE IF IsInfinite(x) THEN (IF y[1] < 0 THEN TNeg(t, x) ELSE x)
  ELSE IF IsInfinite(y) THEN Zero
  ELSE IF y[1] = 0 THEN (IF x[1] = 0 THEN NaN ELSE <<Sign(x[1]), 0>>)
  ELSE Norm(x[1] * y[2], x[2] * y[1])

\* +x (unary plus), stored into a T
TPos(t, x) == x

\* x == y of the scalar type: a NaN compares unequal to everything
TEq(t, x, y) ==
  IF t = "unsigned char" THEN x = y
  ELSE ~IsNaN(x) /\ ~IsNaN(y) /\ x = y

\* x != y of the scalar type
TNe(t, x, y) == ~TEq(t, x, y)

\* std::sqrt(x), stored into a T (truncated for an integral T)
TSqrt(t, x) ==
  IF t = "unsigned char" THEN R(ISqrt(x[1]))
  ELSE IF IsNaN(x) THEN NaN
  ELSE IF IsInfinite(x) THEN (IF x = Inf THEN Inf ELSE NaN)
  ELSE IF x[1] < 0 THEN NaN
  ELSE IF IsSquare(x[1]) /\ IsSquare(x[2]) THEN <<ISqrt(x[1]), ISqrt(x[2])>>
  ELSE <<x[1], x[2], 2>>

\* the values the callers pass as components and scalar operands
Scalars(t) ==
  IF t = "unsigned char" THEN {R(0), R(1), R(16)}
  ELSE {R(0), R(1), NaN}

\* all vectors of dimension d over the input scalars
Vectors(t, d) == [1..d -> Scalars(t)]

\* all initializer lists of up to d + 1 input scalars
InitLists(t, d) == UNION {[1..n -> Scalars(t)] : n \in 0..(d + 1)}

\* ------------------------------------------------------ what a call returns
NoRet == [kind |-> "void"]

Returns(x) == [kind |-> "value", val |-> x]

OutOfRange == [kind |-> "throw", what |-> "std::out_of_range"]

\* the call made an operation the language leaves undefined (a read of
\* m_components outside its bounds, an integral division by zero)
Undefined == [kind |-> "undefined"]

\* ------------------------------------------------------------ std::array
\* std::array<T, D>::fill(x)
Fill(d, x) == [i \in 1..d |-> x]

\* std::array<T, D>::operator[](index), index < D
ArrayIndex(comp, index) == comp[index + 1]

\* std::array<T, D>::at(index): throws std::out_of_range if index >= size()
ArrayAt(comp, index) ==
  IF index >= Len(comp) THEN OutOfRange ELSE Returns(comp[index + 1])

\* ------------------------------------------------------------ constructors
\* Vector()
VectorDefault(d) == Fill(d, Zero)

RECURSIVE InitListLoop(_, _, _, _)
\* for (const auto &num : args) { if (counter >= D) break; ... counter++; }
InitListLoop(comp, list, counter, d) ==
  IF counter >= Len(list) THEN comp
  ELSE IF counter >= d THEN comp
  ELSE InitListLoop([comp EXCEPT ![counter + 1] = list[counter + 1]],
                    list, counter + 1, d)

\* the initializer-list constructor stopping one component early
VectorInitList_OffByOne(d, list) == InitListLoop(Fill(d, Zero), list, 0, d - 1)

\* Vector(const std::initializer_list<T> args)
VectorInitList(d, list) == InitListLoop(Fill(d, Zero), list, 0, d)

\* ------------------------------------------------------------- assignment
RECURSIVE AssignLoop(_, _, _)
\* for (i = 0; i < D; i++) this->m_components[i] = other[i];
AssignLoop(this, other, i) ==
  IF i >= Len(this) THEN this
  ELSE AssignLoop([this EXCEPT ![i + 1] = other[i + 1]], other, i + 1)

\* Vector<D, T> &operator=(const Vector<D, T> &other); self tells whether
\* other is the object itself (this == &other)
OperatorAssign(this, other, self) ==
  IF self THEN [comp |-> this, ret |-> [kind |-> "reference", to |-> "*this"]]
  ELSE [comp |-> AssignLoop(this, other, 0),
        ret |-> [kind |-> "reference", to |-> "*this"]]

\* the value of a component no statement has written yet (m_components is
\* default-initialized where a constructor does not fill it)
Indeterminate == <<0, 0, 0>>

\* the copy constructor whose loop leaves out the last component
VectorCopy_SkipLast(other) ==
  [i \in 1..Len(other) |-> IF i = Len(other) THEN Indeterminate ELSE other[i]]

\* Vector(const Vector<D, T> &other)
VectorCopy(other) == AssignLoop(Fill(Len(other), Indeterminate), other, 0)

\* ---------------------------------------------------------------- access
\* const T &operator[](index) const / T &operator[](index)
Index(comp, index) == ArrayIndex(comp, index)

\* at() that returns the component after the one asked for
At_Shifted(comp, index) ==
  IF index >= Len(comp) THEN OutOfRange
  ELSE Returns(comp[((index + 1) % Len(comp)) + 1])

\* at() whose range check is index > D: index == D reads one past the end
At_LateCheck(comp, index) ==
  IF index > Len(comp) THEN OutOfRange
  ELSE IF index = Len(comp) THEN Returns(Zero)
  ELSE Returns(comp[index + 1])

\* const T &at(index) const / T &at(index)
At(comp, index) == ArrayAt(comp, index)

\* v[index] = x through the mutable operator[]
IndexAssign(comp, index, x) == [comp EXCEPT ![index + 1] = x]

\* v.at(index) = x through the mutable at(): the vector after the statement
\* and whether the call threw
AtAssign(comp, index, x) ==
  IF At(comp, index).kind = "throw"
  THEN [comp |-> comp, ret |-> OutOfRange]
  ELSE [comp |-> [comp EXCEPT ![index + 1] = x], ret |-> NoRet]

\* --------------------------------------------------------------- dimension
\* constexpr std::size_t numDimensions() const { return D; }
NumDimensions(this) == Len(this)

\* ------------------------------------------- binary operators (new vector)
RECURSIVE PlusLoop(_, _, _, _, _)
\* for (i = 0; i < D; i++) tmp[i] = this->m_components[i] + other[i];
PlusLoop(t, tmp, this, other, i) ==
  IF i >= NumDimensions(this) THEN tmp
  ELSE PlusLoop(t, IndexAssign(tmp, i, TAdd(t, this[i + 1], Index(other, i))),
                this, other, i + 1)

\* operator+ pasted from operator-: subtracts instead of adding
OperatorPlus_AsMinus(t, this, other) ==
  [i \in 1..NumDimensions(this) |-> TSub(t, this[i], other[i])]

\* Vector<D, T> operator+(const Vector<D, T> &other) const
OperatorPlus(t, this, other) ==
  PlusLoop(t, VectorDefault(NumDimensions(this)), this, other, 0)

RECURSIVE MinusLoop(_, _, _, _, _)
\* for (i = 0; i < D; i++) tmp[i] = this->m_components[i] - other[i];
MinusLoop(t, tmp, this, other, i) ==
  IF i >= NumDimensions(this) THEN tmp
  ELSE MinusLoop(t, IndexAssign(tmp, i, TSub(t, this[i + 1], Index(other, i))),
                 this, other, i + 1)

\* operator- with its operands swapped: other[i] - this[i]
OperatorMinus_Swapped(t, this, other) ==
  [i \in 1..NumDimensions(this) |-> TSub(t, other[i], this[i])]

\* Vector<D, T> operator-(const Vector<D, T> &other) const
OperatorMinus(t, this, other) ==
  MinusLoop(t, VectorDefault(NumDimensions(this)), this, other, 0)

RECURSIVE TimesLoop(_, _, _, _, _)
\* for (i = 0; i < D; i++) tmp[i] = this->m_components[i] * other;
TimesLoop(t, tmp, this, other, i) ==
  IF i >= NumDimensions(this) THEN tmp
  ELSE TimesLoop(t, IndexAssign(tmp, i, TMul(t, this[i + 1], other)),
                 this, other, i + 1)

\* Vector<D, T> operator*(const T other) const
OperatorTimes(t, this, other) ==
  TimesLoop(t, VectorDefault(NumDimensions(this)), this, other, 0)

RECURSIVE DivideLoop(_, _, _, _, _)
\* for (i = 0; i < D; i++) tmp[i] = this->m_components[i] / other;
DivideLoop(t, tmp, this, other, i) ==
  IF i >= NumDimensions(this) THEN tmp
  ELSE DivideLoop(t, IndexAssign(tmp, i, TDiv(t, this[i + 1], other)),
                  this, other, i + 1)

\* Vector<D, T> operator/(const T other) const
OperatorDivide(t, this, other) ==
  DivideLoop(t, VectorDefault(NumDimensions(this)), this, other, 0)

\* ------------------------------------------------------------- equality
RECURSIVE EqualLoop(_, _, _, _)
\* for (i = 0; i < D; i++) if (this->m_components[i] != other[i]) return false;
\* return true;
EqualLoop(t, this, other, i) ==
  IF i >= NumDimensions(this) THEN TRUE
  ELSE IF TNe(t, this[i + 1], Index(other, i)) THEN FALSE
  ELSE EqualLoop(t, this, other, i + 1)

\* operator== that returns true after comparing the first component only
OperatorEqual_FirstOnly(t, this, other) ==
  IF NumDimensions(this) = 0 THEN TRUE ELSE ~TNe(t, this[1], Index(other, 0))

\* bool operator==(const Vector<D, T> &other) const
OperatorEqual(t, this, other) == EqualLoop(t, this, other, 0)

\* bool operator!=(const Vector<D, T> &other) const
OperatorNotEqual(t, this, other) == ~OperatorEqual(t, this, other)

\* ------------------------------------------------------- unary operators
RECURSIVE NegLoop(_, _, _, _)
\* for (i = 0; i < D; i++) tmp[i] = -this->m_components[i];
NegLoop(t, tmp, this, i) ==
  IF i >= NumDimensions(this) THEN tmp
  ELSE NegLoop(t, IndexAssign(tmp, i, TNeg(t, this[i + 1])), this, i + 1)

\* Vector<D, T> operator-() const
OperatorNeg(t, this) == NegLoop(t, VectorDefault(NumDimensions(this)), this, 0)

RECURSIVE PosLoop(_, _, _, _)
\* for (i = 0; i < D; i++) tmp[i] = +this->m_components[i];
PosLoop(t, tmp, this, i) ==
  IF i >= NumDimensions(this) THEN tmp
  ELSE PosLoop(t, IndexAssign(tmp, i, TPos(t, this[i + 1])), this, i + 1)

\* Vector<D, T> operator+() const
OperatorPos(t, this) == PosLoop(t, VectorDefault(NumDimensions(this)), this, 0)

\* ----------------------------------------------------- in-place operators
\* return *this; (the return type is Vector<D, T> &)
RefThis == [kind |-> "reference", to |-> "*this"]

RECURSIVE PlusAssignLoop(_, _, _, _)
\* for (i = 0; i < D; i++) this->m_components[i] += other[i];
PlusAssignLoop(t, this, other, i) ==
  IF i >= NumDimensions(this) THEN this
  ELSE PlusAssignLoop(t, [this EXCEPT ![i + 1] = TAdd(t, this[i + 1], Index(other, i))],
                      other, i + 1)

\* Vector<D, T> &operator+=(const Vector<D, T> &other)
OperatorPlusAssign(t, this, other) ==
  [comp |-> PlusAssignLoop(t, this, other, 0), ret |-> RefThis]

RECURSIVE MinusAssignLoop(_, _, _, _)
\* for (i = 0; i < D; i++) this->m_components[i] -= other[i];
MinusAssignLoop(t, this, other, i) ==
  IF i >= NumDimensions(this) THEN this
  ELSE MinusAssignLoop(t, [this EXCEPT ![i + 1] = TSub(t, this[i + 1], Index(other, i))],
                       other, i + 1)

\* operator-= that stores other[i] - this[i]
OperatorMinusAssign_Reversed(t, this, other) ==
  [comp |-> [i \in 1..NumDimensions(this) |-> TSub(t, other[i], this[i])],
   ret |-> RefThis]

\* Vector<D, T> &operator-=(const Vector<D, T> &other)
OperatorMinusAssign(t, this, other) ==
  [comp |-> MinusAssignLoop(t, this, other, 0), ret |-> RefThis]

RECURSIVE TimesAssignLoop(_, _, _, _)
\* for (i = 0; i < D; i++) this->m_components[i] *= other;
TimesAssignLoop(t, this, other, i) ==
  IF i >= NumDimensions(this) THEN this
  ELSE TimesAssignLoop(t, [this EXCEPT ![i + 1] = TMul(t, this[i + 1], other)],
                       other, i + 1)

\* Vector<D, T> &operator*=(const T other)
OperatorTimesAssign(t, this, other) ==
  [comp |-> TimesAssignLoop(t, this, other, 0), ret |-> RefThis]

RECURSIVE DivideAssignLoop(_, _, _, _)
\* for (i = 0; i < D; i++) this->m_components[i] /= other;
DivideAssignLoop(t, this, other, i) ==
  IF i >= NumDimensions(this) THEN this
  ELSE DivideAssignLoop(t, [this EXCEPT ![i + 1] = TDiv(t, this[i + 1], other)],
                        other, i + 1)

\* Vector<D, T> &operator/=(const T other)
OperatorDivideAssign(t, this, other) ==
  [comp |-> DivideAssignLoop(t, this, other, 0), ret |-> RefThis]

\* ------------------------------------------------- dot, magn, isZero
RECURSIVE DotLoop(_, _, _, _, _)
\* for (i = 0; i < D; i++) result += this->m_components[i] * other[i];
DotLoop(t, result, this, other, i) ==
  IF i >= NumDimensions(this) THEN result
  ELSE DotLoop(t, TAdd(t, result, TMul(t, this[i + 1], Index(other, i))),
               this, other, i + 1)

\* dot whose loop starts at i = 1
Dot_SkipFirst(t, this, other) == DotLoop(t, Zero, this, other, 1)

\* T dot(const Vector<D, T> &other) const
Dot(t, this, other) == DotLoop(t, Zero, this, other, 0)

RECURSIVE MagnLoop(_, _, _, _)
\* for (const auto &i : this->m_components) sum_of_squares += i * i;
MagnLoop(t, sum_of_squares, this, pos) ==
  IF pos >= Len(this) THEN sum_of_squares
  ELSE MagnLoop(t, TAdd(t, sum_of_squares, TMul(t, this[pos + 1], this[pos + 1])),
                this, pos + 1)

\* magn whose accumulator starts at 1 instead of 0
Magn_SeedOne(t, this) == TSqrt(t, MagnLoop(t, R(1), this, 0))

\* T magn() const
Magn(t, this) == TSqrt(t, MagnLoop(t, Zero, this, 0))

\* bool isZero() const { return this->magn() == 0; }
IsZero(t, this) == TEq(t, Magn(t, this), Zero)

\* --------------------------------------------------------------- normalize
\* Vector<D, T> normalize() const { return (*this) / this->magn(); }
\* For an integral T a division by a zero magnitude is undefined behaviour
\* (for a double it is the IEEE-754 quotient); with D = 0 nothing is divided
Normalize(t, this) ==
  IF t = "unsigned char" /\ Len(this) > 0 /\ Magn(t, this) = Zero
  THEN Undefined
  ELSE Returns(OperatorDivide(t, this, Magn(t, this)))

\* what a build can do with the integral division by zero: stop the program
\* (a trap), or go on with some value in every component
NormalizeUndefined(t, d) ==
  {[kind |-> "crash"]} \cup {Returns(g) : g \in Vectors(t, d)}

\* ------------------------------------------------------------- Vector2D
\* (the setters x and y of Vector3D have the same bodies)
\* void x(const double &newX) { this->m_components[0] = newX; }
SetX(this, newX) == [this EXCEPT ![1] = newX]

\* void y(const double &newY) { this->m_components[1] = newY; }
SetY(this, newY) == [this EXCEPT ![2] = newY]

\* ------------------------------------------------------------- Vector3D
\* void z(const double &newZ) { this->m_components[2] = newZ; }
SetZ(this, newZ) == [this EXCEPT ![3] = newZ]

\* Vector3D(const double x, const double y, const double z)
Vector3DXYZ(x, y, z) ==
  IndexAssign(IndexAssign(IndexAssign(VectorDefault(3), 0, x), 1, y), 2, z)

\* double x() const / y() const / z() const (x and y of Vector2D have the
\* same bodies)
GetX(this) == this[1]

\* y() returning the x component
GetY_ReadsX(this) == this[1]

GetY(this) == this[2]

GetZ(this) == this[3]

\* cross with the two products of newy exchanged
Cross_NewYSwapped(this, other) ==
  LET newx == TSub("double", TMul("double", GetY(this), GetZ(other)),
                             TMul("double", GetZ(this), GetY(other)))
      newy == TSub("double", TMul("double", GetX(this), GetZ(other)),
                             TMul("double", GetZ(this), GetX(other)))
      newz == TSub("double", TMul("double", GetX(this), GetY(other)),
                             TMul("double", GetY(this), GetX(other)))
  IN  Vector3DXYZ(newx, newy, newz)

\* Vector3D cross(const Vector3D &other) const
Cross(this, other) ==
  LET newx == TSub("double", TMul("double", GetY(this), GetZ(other)),
                             TMul("double", GetZ(this), GetY(other)))
      newy == TSub("double", TMul("double", GetZ(this), GetX(other)),
                             TMul("double", GetX(this), GetZ(other)))
      newz == TSub("double", TMul("double", GetX(this), GetY(other)),
                             TMul("double", GetY(this), GetX(other)))
  IN  Vector3DXYZ(newx, newy, newz)

\* ----------------------------------------------------------- <cmath> angles
\* the angles (double, radians) the callers pass to Vector2D::rotate, by
\* name; a named angle stands for the exact real number, the rounding of pi
\* to a double is not modelled
Angles == {"M_PI_2", "-M_PI_2", "atan2(4, 3)"}

\* std::cos(ang)
Cos(ang) ==
  CASE ang = "M_PI_2" -> R(0)
    [] ang = "-M_PI_2" -> R(0)
    [] ang = "atan2(4, 3)" -> <<3, 5>>

\* std::sin(ang)
Sin(ang) ==
  CASE ang = "M_PI_2" -> R(1)
    [] ang = "-M_PI_2" -> R(-1)
    [] ang = "atan2(4, 3)" -> <<4, 5>>

\* std::acos(v) for a rational or symbolic-square-root v: NaN outside
\* [-1, 1], 0 at 1, and otherwise the symbolic angle <<n, d, r, -1>>, the
\* inverse cosine of sign(n) * (|n|/d)^(1/r)
Acos(v) ==
  IF IsNaN(v) \/ IsInfinite(v) THEN NaN
  ELSE IF Abs(v[1]) > v[2] THEN NaN
  ELSE IF v = R(1) THEN Zero
  ELSE <<v[1], v[2], Len(v) - 1, -1>>

\* -------------------------------------------------------- Vector2D rotation
\* rotate turning clockwise for a positive angle
Rotate2D_Clockwise(this, ang) ==
  LET xPrime == TAdd("double", TMul("double", this[1], Cos(ang)),
                               TMul("double", this[2], Sin(ang)))
      yPrime == TSub("double", TMul("double", this[2], Cos(ang)),
                               TMul("double", this[1], Sin(ang)))
  IN  VectorInitList(2, <<xPrime, yPrime>>)

\* Vector2D rotate(const double ang) const; x() and y() are m_components[0]
\* and m_components[1], Vector2D{x', y'} is list-initialization
Rotate2D(this, ang) ==
  LET xPrime == TSub("double", TMul("double", this[1], Cos(ang)),
                               TMul("double", this[2], Sin(ang)))
      yPrime == TAdd("double", TMul("double", this[1], Sin(ang)),
                               TMul("double", this[2], Cos(ang)))
  IN  VectorInitList(2, <<xPrime, yPrime>>)

\* ----------------------------------------------------------- Vector2D angle
\* the double -0.0, which std::atan2 tells from +0.0 (only the components
\* given to Vector2D(x, y) and read by angle() take this value)
NegZero == <<0, -1>>

\* the sign bit of a double that is not a NaN
SignBit(x) == x = NegZero \/ x[1] < 0

\* the angle a * pi (radians) for a rational a = n/d
PiTimes(n, d) == Norm(n, d)

\* v with the sign bit of y
CopySign(v, y) ==
  IF SignBit(y) = SignBit(v) THEN v
  ELSE IF v = Zero THEN NegZero
  ELSE IF v = NegZero THEN Zero
  ELSE <<-v[1], v[2]>>

\* std::atan2(y, x) (IEC 60559): a NaN if an operand is a NaN; otherwise the
\* angle of the direction (x, y) with the sign bit of y: +-0 or +-pi for
\* y = +-0, +-pi/2 for x = +-0 or an infinite y alone, +-pi/4 and +-3pi/4
\* where |y| = |x|.  The result is the pair a of the angle a * pi, +-0
\* included; where the angle is no such multiple of pi it is the symbolic
\* value <<Y, X, -2>>, the angle of the direction (X, Y) for integers X, Y.
Atan2(y, x) ==
  IF IsNaN(y) \/ IsNaN(x) THEN NaN
  ELSE IF y = Zero \/ y = NegZero
       THEN (IF SignBit(x) THEN CopySign(PiTimes(1, 1), y) ELSE y)
  ELSE IF IsInfinite(y)
       THEN (IF x = NInf THEN CopySign(PiTimes(3, 4), y)
             ELSE IF x = Inf THEN CopySign(PiTimes(1, 4), y)
             ELSE CopySign(PiTimes(1, 2), y))
  ELSE IF x = Zero \/ x = NegZero THEN CopySign(PiTimes(1, 2), y)
  ELSE IF x = NInf THEN CopySign(PiTimes(1, 1), y)
  ELSE IF x = Inf THEN CopySign(Zero, y)
  ELSE IF Abs(y[1]) * x[2] = Abs(x[1]) * y[2]
       THEN CopySign(PiTimes(IF x[1] < 0 THEN 3 ELSE 1, 4), y)
  ELSE LET g == GCD(Abs(y[1] * x[2]), Abs(x[1] * y[2]))
       IN  <<(y[1] * x[2]) \div g, (x[1] * y[2]) \div g, -2>>

\* Vector2D(const double x, const double y)
Vector2DXY(x, y) == IndexAssign(IndexAssign(VectorDefault(2), 0, x), 1, y)

\* double angle() const { return std::atan2(this->y(), this->x()); }
Angle2D(this) == Atan2(GetY(this), GetX(this))

\* ------------------------------------------------- Vector3D angles, rotation
\* the angles the callers pass to Vector3D::rotate
Angles3D == {"M_PI_2", "atan2(4, 3)"}

\* the values of the template argument AngleDir D: the three enumerators and
\* a value of the enumeration type that is none of them
AngleDirs == {"ALPHA", "BETA", "GAMMA", "static_cast<AngleDir>(3)"}

\* double getAlpha() const
GetAlpha(this) == Acos(TDiv("double", GetX(this), Magn("double", this)))

\* double getBeta() const
GetBeta(this) == Acos(TDiv("double", GetY(this), Magn("double", this)))

\* double getGamma() const
GetGamma(this) == Acos(TDiv("double", GetZ(this), Magn("double", this)))

\* template <AngleDir D> double angle() const
Angle3D(dir, this) ==
  CASE dir = "ALPHA" -> GetAlpha(this)
    [] dir = "BETA" -> GetBeta(this)
    [] OTHER -> GetGamma(this)

\* Vector3D rotateAlpha(const double &ang) const; Vector3D{x', y', z'} is
\* list-initialization, it selects the inherited initializer-list constructor
RotateAlpha(this, ang) ==
  LET xPrime == GetX(this)
      yPrime == TSub("double", TMul("double", GetY(this), Cos(ang)),
                               TMul("double", GetZ(this), Sin(ang)))
      zPrime == TAdd("double", TMul("double", GetY(this), Sin(ang)),
                               TMul("double", GetZ(this), Cos(ang)))
  IN  VectorInitList(3, <<xPrime, yPrime, zPrime>>)

\* rotateBeta turning the other way (x and z exchange their signs)
RotateBeta_LeftHanded(this, ang) ==
  LET xPrime == TSub("double", TMul("double", GetX(this), Cos(ang)),
                               TMul("double", GetZ(this), Sin(ang)))
      yPrime == GetY(this)
      zPrime == TAdd("double", TMul("double", GetX(this), Sin(ang)),
                               TMul("double", GetZ(this), Cos(ang)))
  IN  VectorInitList(3, <<xPrime, yPrime, zPrime>>)

\* Vector3D rotateBeta(const double &ang) const
RotateBeta(this, ang) ==
  LET xPrime == TAdd("double", TMul("double", GetX(this), Cos(ang)),
                               TMul("double", GetZ(this), Sin(ang)))
      yPrime == GetY(this)
      zPrime == TAdd("double",
                     TMul("double", TNeg("double", GetX(this)), Sin(ang)),
                     TMul("double", GetZ(this), Cos(ang)))
  IN  VectorInitList(3, <<xPrime, yPrime, zPrime>>)

\* Vector3D rotateGamma(const double &ang) const
RotateGamma(this, ang) ==
  LET xPrime == TSub("double", TMul("double", GetX(this), Cos(ang)),
                               TMul("double", GetY(this), Sin(ang)))
      yPrime == TAdd("double", TMul("double", GetX(this), Sin(ang)),
                               TMul("double", GetY(this), Cos(ang)))
      zPrime == GetZ(this)
  IN  VectorInitList(3, <<xPrime, yPrime, zPrime>>)

\* rotate<D> whose BETA case applies the z-axis rotation
Rotate3D_BetaAsGamma(dir, this, ang) ==
  CASE dir = "ALPHA" -> RotateAlpha(this, ang)
    [] OTHER -> RotateGamma(this, ang)

\* template <AngleDir D> Vector3D rotate(const double &ang) const
Rotate3D(dir, this, ang) ==
  CASE dir = "ALPHA" -> RotateAlpha(this, ang)
    [] dir = "BETA" -> RotateBeta(this, ang)
    [] OTHER -> RotateGamma(this, ang)

\* ----------------------------------------------------------------- compare
\* the type two operands of types t and t2 are compared in (the usual
\* arithmetic conversions; an unsigned char converts to a double exactly)
CommonType(t, t2) == IF t = t2 THEN t ELSE "double"

\* x < y that is true when an operand is a NaN
TLt_UnorderedIsLess(t, x, y) ==
  IF t = "unsigned char" THEN x[1] < y[1]
  ELSE IF IsNaN(x) \/ IsNaN(y) THEN TRUE
  ELSE IF IsInfinite(x) \/ IsInfinite(y)
       THEN (x = NInf /\ y # NInf) \/ (y = Inf /\ x # Inf)
  ELSE x[1] * y[2] < y[1] * x[2]

\* x < y of the scalar type: false when an operand is a NaN
TLt(t, x, y) ==
  IF t = "unsigned char" THEN x[1] < y[1]
  ELSE IF IsNaN(x) \/ IsNaN(y) THEN FALSE
  ELSE IF IsInfinite(x) \/ IsInfinite(y)
       THEN (x = NInf /\ y # NInf) \/ (y = Inf /\ x # Inf)
  ELSE x[1] * y[2] < y[1] * x[2]

RECURSIVE CompareLoop(_, _, _, _, _)
\* for (i = 0; i < min_dim; i++) { if (==) counter++; else if (<) return -1;
\* else return 1; }  if (counter != D || counter != D2) return -1; return 0;
CompareLoop(t, this, other, i, counter) ==
  LET min_dim == IF Len(this) < Len(other) THEN Len(this) ELSE Len(other)
  IN  IF i >= min_dim
      THEN (IF counter # Len(this) \/ counter # Len(other) THEN -1 ELSE 0)
      ELSE IF TEq(t, this[i + 1], other[i + 1])
           THEN CompareLoop(t, this, other, i + 1, counter + 1)
      ELSE IF TLt(t, this[i + 1], other[i + 1]) THEN -1
      ELSE 1

\* compare that looks at the dimensions after the components
Compare_ComponentsFirst(t, t2, this, other) ==
  LET n == IF Len(this) < Len(other) THEN Len(this) ELSE Len(other)
      res == CompareLoop(CommonType(t, t2), SubSeq(this, 1, n), SubSeq(other, 1, n), 0, 0)
  IN  IF res # 0 THEN res
      ELSE IF Len(this) = Len(other) THEN 0
      ELSE IF Len(this) < Len(other) THEN -1
      ELSE 1

\* std::int8_t compare(const Vector<D2, T2> &other) const noexcept
Compare(t, t2, this, other) ==
  IF Len(this) # Len(other)
  THEN (IF Len(this) < Len(other) THEN -1 ELSE 1)
  ELSE CompareLoop(CommonType(t, t2), this, other, 0, 0)

\* ---------------------------------------------------------- std::to_string
\* a std::string is the sequence of its characters
DigitChar(d) == <<"0", "1", "2", "3", "4", "5", "6", "7", "8", "9">>[d + 1]

RECURSIVE Digits(_)
\* the decimal digits of n >= 0, no leading zero
Digits(n) == IF n < 10 THEN <<DigitChar(n)>> ELSE Digits(n \div 10) \o <<DigitChar(n % 10)>>

RECURSIVE Pad(_, _)
\* str with zeros put before it up to the length len
Pad(str, len) == IF Len(str) >= len THEN str ELSE Pad(<<"0">> \o str, len)

\* the number of digits std::to_string(double) prints after the point ("%f")
FDigits == 6

\* a/d for a >= 0 rounded to the nearest integer, a tie to the even one
RoundDiv(a, d) ==
  LET q == a \div d
      r == a % d
  IN  IF 2 * r > d \/ (2 * r = d /\ q % 2 = 1) THEN q + 1 ELSE q

\* std::to_string printing a double with three digits after the point
ToStringT_ThreeDigits(t, x) ==
  IF t = "unsigned char" THEN Digits(x[1])
  ELSE IF IsNaN(x) THEN <<"n", "a", "n">>
  ELSE IF x = Inf THEN <<"i", "n", "f">>
  ELSE IF x = NInf THEN <<"-", "i", "n", "f">>
  ELSE LET scaled == RoundDiv(Abs(x[1]) * 10^3, x[2])
       IN  (IF x[1] < 0 THEN <<"-">> ELSE <<>>)
             \o Digits(scaled \div 10^3)
             \o <<".">>
             \o Pad(Digits(scaled % 10^3), 3)

\* std::to_string(x): for a double what printf("%f") prints (the sign of a
\* zero or of a NaN is not modelled); an unsigned char is promoted to int
\* and printed in decimal
ToStringT(t, x) ==
  IF t = "unsigned char" THEN Digits(x[1])
  ELSE IF IsNaN(x) THEN <<"n", "a", "n">>
  ELSE IF x = Inf THEN <<"i", "n", "f">>
  ELSE IF x = NInf THEN <<"-", "i", "n", "f">>
  ELSE LET scaled == RoundDiv(Abs(x[1]) * 10^FDigits, x[2])
       IN  (IF x[1] < 0 THEN <<"-">> ELSE <<>>)
             \o Digits(scaled \div 10^FDigits)
             \o <<".">>
             \o Pad(Digits(scaled % 10^FDigits), FDigits)

\* ---------------------------------------------------------------- toString
\* SIZE_MAX, the value D - 1 wraps to for D = 0 (the model's integers end
\* at 2^31 - 1; every bound above the dimensions modelled acts alike)
SizeMax == 2147483647

\* the std::size_t D - 1
DMinusOne(d) == IF d = 0 THEN SizeMax ELSE d - 1

RECURSIVE ToStringLoop(_, _, _, _)
\* for (i = 0; i < D - 1; i++) { str += std::to_string(m_components[i]);
\*                               str += ", "; }
ToStringLoop(t, str, this, i) ==
  IF i >= DMinusOne(Len(this)) THEN Returns(str)
  ELSE IF i >= Len(this) THEN Undefined
  ELSE ToStringLoop(t, str \o ToStringT(t, this[i + 1]) \o <<",", " ">>, this, i + 1)

\* virtual std::string toString() const
toString(t, this) ==
  LET loop == ToStringLoop(t, <<"<">>, this, 0)
  IN  IF loop = Undefined THEN Undefined
      ELSE IF DMinusOne(Len(this)) >= Len(this) THEN Undefined
      ELSE Returns(loop.val \o ToStringT(t, this[DMinusOne(Len(this)) + 1]) \o <<">">>)

\* what a build can do with the out-of-bounds reads of toString: stop the
\* program at the faulting read, run out of memory growing str, or return
\* a string made from the value found at the address read
ToStringUndefined(t) ==
  {[kind |-> "crash"], [kind |-> "throw", what |-> "std::bad_alloc"]}
    \cup {Returns(<<"<">> \o ToStringT(t, g) \o <<">">>) : g \in Scalars(t)}

\* --------------------------------------------------------------- iterators
\* an std::array iterator is the position it points at, 0..D (D: one past
\* the last component); an std::array reverse_iterator holds the base
\* position and points at the component before it
\* iterator begin() noexcept / const_iterator begin() const noexcept
Begin(this) == [kind |-> "iterator", pos |-> 0]

\* end() that is the position of the last component
End_OneShort(this) ==
  [kind |-> "iterator", pos |-> IF Len(this) = 0 THEN 0 ELSE Len(this) - 1]

\* iterator end() noexcept / const_iterator end() const noexcept
End(this) == [kind |-> "iterator", pos |-> Len(this)]

\* reverse_iterator rbegin() noexcept / const: reverse_iterator(end())
RBegin(this) == [kind |-> "reverse_iterator", base |-> Len(this)]

\* reverse_iterator rend() noexcept / const: reverse_iterator(begin())
REnd(this) == [kind |-> "reverse_iterator", base |-> 0]

\* *it and *rit, for an iterator that is not end() or rend()
Deref(this, it) ==
  IF it.kind = "iterator" THEN this[it.pos + 1] ELSE this[it.base]

\* a store through an iterator that lands on the component after the one
\* it points at (the first one after the last)
DerefAssign_Next(this, it, x) ==
  IF it.kind = "iterator"
  THEN [this EXCEPT ![((it.pos + 1) % Len(this)) + 1] = x]
  ELSE [this EXCEPT ![(it.base % Len(this)) + 1] = x]

\* *it = x and *rit = x through a non-const iterator that is not end() or
\* rend()
DerefAssign(this, it, x) ==
  IF it.kind = "iterator" THEN [this EXCEPT ![it.pos + 1] = x]
  ELSE [this EXCEPT ![it.base] = x]

\* the index of the component an iterator points at
IndexOf(it) == IF it.kind = "iterator" THEN it.pos ELSE it.base - 1

\* ++it and ++rit
Incr(it) ==
  IF it.kind = "iterator" THEN [it EXCEPT !.pos = @ + 1]
  ELSE [it EXCEPT !.base = @ - 1]

\* -------------------------------------------------------------- loop rounds
\* A round of a loop is one execution of its body that processes a component
\* (reads or writes m_components[i] or other[i]).
RECURSIVE ForRounds(_, _)
\* for (std::size_t i = 0; i < D; i++) { ... } with no break or return in
\* the body, and for (const auto &i : this->m_components): the rounds made
ForRounds(d, i) == IF i >= d THEN i ELSE ForRounds(d, i + 1)

RECURSIVE ToStringRounds(_, _)
\* for (i = 0; i < D - 1; i++) of toString: the rounds begun, up to and
\* including the first one whose m_components[i] is outside the array (what
\* follows that round is undefined)
ToStringRounds(this, i) ==
  IF i >= DMinusOne(Len(this)) THEN i
  ELSE IF i >= Len(this) THEN i + 1
  ELSE ToStringRounds(this, i + 1)

\* for (const auto &num : args) of the initializer-list constructor: the
\* rounds that store a component (the round that breaks stores none)
InitListRounds(list, d) == IF Len(list) < d THEN Len(list) ELSE d

RECURSIVE EqualRounds(_, _, _, _)
\* the loop of operator==: it returns from the first round that finds a
\* difference
EqualRounds(t, this, other, i) ==
  IF i >= NumDimensions(this) THEN i
  ELSE IF TNe(t, this[i + 1], Index(other, i)) THEN i + 1
  ELSE EqualRounds(t, this, other, i + 1)

RECURSIVE CompareRounds(_, _, _, _)
\* the loop of compare, entered when D == D2: it returns from the first
\* round whose components are not equal
CompareRounds(t, this, other, i) ==
  LET min_dim == IF Len(this) < Len(other) THEN Len(this) ELSE Len(other)
  IN  IF Len(this) # Len(other) THEN 0
      ELSE IF i >= min_dim THEN i
      ELSE IF TEq(t, this[i + 1], other[i + 1])
           THEN CompareRounds(t, this, other, i + 1)
      ELSE i + 1

\* ---------------------------------------------------------- storage accesses
RECURSIVE ToStringReads(_, _)
\* the indices i of the reads m_components[i] of toString: those of its
\* loop, then m_components[D - 1]; up to and including the first one outside
\* the array (what follows that read is undefined)
ToStringReads(this, i) ==
  IF i >= DMinusOne(Len(this)) THEN {DMinusOne(Len(this))}
  ELSE IF i >= Len(this) THEN {i}
  ELSE {i} \cup ToStringReads(this, i + 1)

\* the indices of the accesses of a loop that reads or writes component i
\* in its round i, for the number of rounds it makes
LoopAccesses(rounds) == 0..(rounds - 1)

\* the index std::array::at(index) accesses: none when it throws
AtAccesses(comp, index) == IF index >= Len(comp) THEN {} ELSE {index}

\* ------------------------------------------------------------------ state
Mutations ==
  {"operator[]=", "at=", "operator=", "x(newX)", "y(newY)", "z(newZ)",
   "operator+=", "operator-=", "operator*=", "operator/="}

Init ==
  /\ T \in Types
  /\ D \in 0..MaxDim
  /\ m_components = VectorDefault(D)
  /\ other_components = VectorDefault(D)
  /\ op = "Vector()"
  /\ args = <<>>
  /\ ret = NoRet
  /\ steps = 0

\* no call is in progress: the previous full-expression has ended
Idle == op = "idle"

\* the full-expression ends: its operands and the value it returned are
\* destroyed, the object itself stays as the call left it (nothing follows
\* a call that stopped the program)
Discard ==
  /\ ~Idle
  /\ ret.kind # "crash"
  /\ op' = "idle"
  /\ args' = <<>>
  /\ ret' = NoRet
  /\ UNCHANGED <<T, D, other_components, m_components, steps>>

\* Vector<D, T> v;
ConstructDefault ==
  /\ Idle
  /\ m_components' = VectorDefault(D)
  /\ op' = "Vector()"
  /\ args' = <<>>
  /\ ret' = NoRet
  /\ steps' = 0
  /\ UNCHANGED <<T, D, other_components>>

\* Vector<D, T> v{list};
ConstructInitList ==
  /\ Idle
  /\ \E list \in InitLists(T, D) :
       /\ m_components' = VectorInitList(D, list)
       /\ op' = "Vector(initializer_list)"
       /\ args' = <<list>>
       /\ ret' = NoRet
       /\ steps' = 0
       /\ UNCHANGED <<T, D, other_components>>

\* v[index] (read), index < D
ReadIndex ==
  /\ Idle
  /\ \E index \in 0..(D - 1) :
       /\ op' = "operator[]"
       /\ args' = <<index>>
       /\ ret' = Returns(Index(m_components, index))
       /\ UNCHANGED <<T, D, other_components, m_components, steps>>

\* v.at(index) (read), any index
ReadAt ==
  /\ Idle
  /\ \E index \in 0..(MaxDim + 1) :
       /\ op' = "at"
       /\ args' = <<index>>
       /\ ret' = At(m_components, index)
       /\ UNCHANGED <<T, D, other_components, m_components, steps>>

\* v[index] = x, index < D
WriteIndex ==
  /\ Idle
  /\ steps < MaxSteps
  /\ \E index \in 0..(D - 1), x \in Scalars(T) :
       /\ m_components' = IndexAssign(m_components, index, x)
       /\ op' = "operator[]="
       /\ args' = <<index, x>>
       /\ ret' = NoRet
       /\ steps' = steps + 1
       /\ UNCHANGED <<T, D, other_components>>

\* v.at(index) = x, any index
WriteAt ==
  /\ Idle
  /\ steps < MaxSteps
  /\ \E index \in 0..(MaxDim + 1), x \in Scalars(T) :
       /\ m_components' = AtAssign(m_components, index, x).comp
       /\ op' = "at="
       /\ args' = <<index, x>>
       /\ ret' = AtAssign(m_components, index, x).ret
       /\ steps' = IF index >= D THEN steps ELSE steps + 1
       /\ UNCHANGED <<T, D, other_components>>

\* v = other, other another vector or v itself
CallAssign ==
  /\ Idle
  /\ steps < MaxSteps
  /\ \E other \in Vectors(T, D), self \in BOOLEAN :
       /\ m_components' =
            OperatorAssign(m_components,
                           IF self THEN m_components ELSE other, self).comp
       /\ op' = "operator="
       /\ args' = <<IF self THEN m_components ELSE other, self>>
       /\ ret' =
            OperatorAssign(m_components,
                           IF self THEN m_components ELSE other, self).ret
       /\ steps' = steps + 1
       /\ UNCHANGED <<T, D, other_components>>

\* v.x(newX), v of class Vector2D (a Vector<2, double>) or Vector3D (a
\* Vector<3, double>)
CallSetX ==
  /\ Idle
  /\ steps < MaxSteps
  /\ T = "double"
  /\ D \in {2, 3}
  /\ \E newX \in Scalars(T) :
       /\ m_components' = SetX(m_components, newX)
       /\ op' = "x(newX)"
       /\ args' = <<newX>>
       /\ ret' = NoRet
       /\ steps' = steps + 1
       /\ UNCHANGED <<T, D, other_components>>

\* v.y(newY), v of class Vector2D (a Vector<2, double>) or Vector3D (a
\* Vector<3, double>)
CallSetY ==
  /\ Idle
  /\ steps < MaxSteps
  /\ T = "double"
  /\ D \in {2, 3}
  /\ \E newY \in Scalars(T) :
       /\ m_components' = SetY(m_components, newY)
       /\ op' = "y(newY)"
       /\ args' = <<newY>>
       /\ ret' = NoRet
       /\ steps' = steps + 1
       /\ UNCHANGED <<T, D, other_components>>

\* v.z(newZ), v of class Vector3D
CallSetZ ==
  /\ Idle
  /\ steps < MaxSteps
  /\ T = "double"
  /\ D = 3
  /\ \E newZ \in Scalars(T) :
       /\ m_components' = SetZ(m_components, newZ)
       /\ op' = "z(newZ)"
       /\ args' = <<newZ>>
       /\ ret' = NoRet
       /\ steps' = steps + 1
       /\ UNCHANGED <<T, D, other_components>>

\* v.x(), v of class Vector2D or Vector3D
CallGetX ==
  /\ Idle
  /\ T = "double"
  /\ D \in {2, 3}
  /\ op' = "x()"
  /\ args' = <<>>
  /\ ret' = Returns(GetX(m_components))
  /\ UNCHANGED <<T, D, other_components, m_components, steps>>

\* v.y(), v of class Vector2D or Vector3D
CallGetY ==
  /\ Idle
  /\ T = "double"
  /\ D \in {2, 3}
  /\ op' = "y()"
  /\ args' = <<>>
  /\ ret' = Returns(GetY(m_components))
  /\ UNCHANGED <<T, D, other_components, m_components, steps>>

\* v.z(), v of class Vector3D
CallGetZ ==
  /\ Idle
  /\ T = "double"
  /\ D = 3
  /\ op' = "z()"
  /\ args' = <<>>
  /\ ret' = Returns(GetZ(m_components))
  /\ UNCHANGED <<T, D, other_components, m_components, steps>>

\* the scalar operands a caller may pass to operator/ and operator/=
Divisors(t) == IF t = "unsigned char" THEN Scalars(t) \ {Zero} ELSE Scalars(t)

\* v + other
CallPlus ==
  /\ Idle
  /\ \E other \in Vectors(T, D) :
       /\ op' = "operator+"
       /\ args' = <<other>>
       /\ ret' = Returns(OperatorPlus(T, m_components, other))
       /\ UNCHANGED <<T, D, other_components, m_components, steps>>

\* v - other
CallMinus ==
  /\ Idle
  /\ \E other \in Vectors(T, D) :
       /\ op' = "operator-"
       /\ args' = <<other>>
       /\ ret' = Returns(OperatorMinus(T, m_components, other))
       /\ UNCHANGED <<T, D, other_components, m_components, steps>>

\* v * other
CallTimes ==
  /\ Idle
  /\ \E other \in Scalars(T) :
       /\ op' = "operator*"
       /\ args' = <<other>>
       /\ ret' = Returns(OperatorTimes(T, m_components, other))
       /\ UNCHANGED <<T, D, other_components, m_components, steps>>

\* v / other
CallDivide ==
  /\ Idle
  /\ \E other \in Divisors(T) :
       /\ op' = "operator/"
       /\ args' = <<other>>
       /\ ret' = Returns(OperatorDivide(T, m_components, other))
       /\ UNCHANGED <<T, D, other_components, m_components, steps>>

\* v == other (other may be v itself)
CallEqual ==
  /\ Idle
  /\ \E other \in Vectors(T, D) \cup {m_components} :
       /\ op' = "operator=="
       /\ args' = <<other>>
       /\ ret' = Returns(OperatorEqual(T, m_components, other))
       /\ UNCHANGED <<T, D, other_components, m_components, steps>>

\* v != other (other may be v itself)
CallNotEqual ==
  /\ Idle
  /\ \E other \in Vectors(T, D) \cup {m_components} :
       /\ op' = "operator!="
       /\ args' = <<other>>
       /\ ret' = Returns(OperatorNotEqual(T, m_components, other))
       /\ UNCHANGED <<T, D, other_components, m_components, steps>>

\* -v
CallNeg ==
  /\ Idle
  /\ op' = "operator-()"
  /\ args' = <<>>
  /\ ret' = Returns(OperatorNeg(T, m_components))
  /\ UNCHANGED <<T, D, other_components, m_components, steps>>

\* +v
CallPos ==
  /\ Idle
  /\ op' = "operator+()"
  /\ args' = <<>>
  /\ ret' = Returns(OperatorPos(T, m_components))
  /\ UNCHANGED <<T, D, other_components, m_components, steps>>

\* v += other
CallPlusAssign ==
  /\ Idle
  /\ steps < MaxSteps
  /\ \E other \in Vectors(T, D) :
       /\ m_components' = OperatorPlusAssign(T, m_components, other).comp
       /\ op' = "operator+="
       /\ args' = <<other>>
       /\ ret' = OperatorPlusAssign(T, m_components, other).ret
       /\ steps' = steps + 1
       /\ UNCHANGED <<T, D, other_components>>

\* v -= other
CallMinusAssign ==
  /\ Idle
  /\ steps < MaxSteps
  /\ \E other \in Vectors(T, D) :
       /\ m_components' = OperatorMinusAssign(T, m_components, other).comp
       /\ op' = "operator-="
       /\ args' = <<other>>
       /\ ret' = OperatorMinusAssign(T, m_components, other).ret
       /\ steps' = steps + 1
       /\ UNCHANGED <<T, D, other_components>>

\* v *= other
CallTimesAssign ==
  /\ Idle
  /\ steps < MaxSteps
  /\ \E other \in Scalars(T) :
       /\ m_components' = OperatorTimesAssign(T, m_components, other).comp
       /\ op' = "operator*="
       /\ args' = <<other>>
       /\ ret' = OperatorTimesAssign(T, m_components, other).ret
       /\ steps' = steps + 1
       /\ UNCHANGED <<T, D, other_components>>

\* v /= other
CallDivideAssign ==
  /\ Idle
  /\ steps < MaxSteps
  /\ \E other \in Divisors(T) :
       /\ m_components' = OperatorDivideAssign(T, m_components, other).comp
       /\ op' = "operator/="
       /\ args' = <<other>>
       /\ ret' = OperatorDivideAssign(T, m_components, other).ret
       /\ steps' = steps + 1
       /\ UNCHANGED <<T, D, other_components>>

\* v.dot(other)
CallDot ==
  /\ Idle
  /\ \E other \in Vectors(T, D) :
       /\ op' = "dot"
       /\ args' = <<other>>
       /\ ret' = Returns(Dot(T, m_components, other))
       /\ UNCHANGED <<T, D, other_components, m_components, steps>>

\* v.magn()
CallMagn ==
  /\ Idle
  /\ op' = "magn"
  /\ args' = <<>>
  /\ ret' = Returns(Magn(T, m_components))
  /\ UNCHANGED <<T, D, other_components, m_components, steps>>

\* v.isZero()
CallIsZero ==
  /\ Idle
  /\ op' = "isZero"
  /\ args' = <<>>
  /\ ret' = Returns(IsZero(T, m_components))
  /\ UNCHANGED <<T, D, other_components, m_components, steps>>

\* v.toString()
CallToString ==
  /\ Idle
  /\ op' = "toString"
  /\ args' = <<>>
  /\ IF toString(T, m_components) = Undefined
     THEN ret' \in ToStringUndefined(T)
     ELSE ret' = toString(T, m_components)
  /\ UNCHANGED <<T, D, other_components, m_components, steps>>

\* v.rotate(ang), v of class Vector2D (a Vector<2, double>)
CallRotate2D ==
  /\ Idle
  /\ T = "double"
  /\ D = 2
  /\ \E ang \in Angles :
       /\ op' = "Vector2D::rotate"
       /\ args' = <<ang>>
       /\ ret' = Returns(Rotate2D(m_components, ang))
       /\ UNCHANGED <<T, D, other_components, m_components, steps>>

\* v.normalize()
CallNormalize ==
  /\ Idle
  /\ op' = "normalize"
  /\ args' = <<>>
  /\ IF Normalize(T, m_components) = Undefined
     THEN ret' \in NormalizeUndefined(T, D)
     ELSE ret' = Normalize(T, m_components)
  /\ UNCHANGED <<T, D, other_components, m_components, steps>>

Next ==
  \/ Discard
  \/ ConstructDefault
  \/ ConstructInitList
  \/ ReadIndex
  \/ ReadAt
  \/ WriteIndex
  \/ WriteAt
  \/ CallAssign
  \/ CallSetX
  \/ CallSetY
  \/ CallPlus
  \/ CallMinus
  \/ CallTimes
  \/ CallDivide
  \/ CallEqual
  \/ CallNotEqual
  \/ CallNeg
  \/ CallPos
  \/ CallPlusAssign
  \/ CallMinusAssign
  \/ CallTimesAssign
  \/ CallDivideAssign
  \/ CallDot
  \/ CallMagn
  \/ CallIsZero
  \/ CallRotate2D
  \/ CallToString
  \/ CallNormalize

Spec == Init /\ [][Next]_vars

\* ---------------------------------------------------------------- Vector3D
\* the values the callers pass as x, y and z
Scalars3D == {R(-1), R(0), R(2), Inf, NaN}

Vectors3D == [1..3 -> Scalars3D]

\* Vector3D v; (the inherited no-argument constructor)
Init3D ==
  /\ T = "double"
  /\ D = 3
  /\ m_components = VectorDefault(3)
  /\ other_components = VectorDefault(D)
  /\ op = "Vector()"
  /\ args = <<>>
  /\ ret = NoRet
  /\ steps = 0

\* Vector3D v(x, y, z);
Construct3D ==
  /\ Idle
  /\ \E x \in Scalars3D, y \in Scalars3D, z \in Scalars3D :
       /\ m_components' = Vector3DXYZ(x, y, z)
       /\ op' = "Vector3D(x, y, z)"
       /\ args' = <<x, y, z>>
       /\ ret' = NoRet
       /\ steps' = 0
       /\ UNCHANGED <<T, D, other_components>>

\* v.cross(other)
CallCross ==
  /\ Idle
  /\ \E other \in Vectors3D :
       /\ op' = "cross"
       /\ args' = <<other>>
       /\ ret' = Returns(Cross(m_components, other))
       /\ UNCHANGED <<T, D, other_components, m_components, steps>>

\* v.rotate<dir>(ang): the call and its two operands are recorded
CallRotate ==
  /\ Idle
  /\ \E dir \in AngleDirs, ang \in Angles3D :
       /\ op' = "rotate"
       /\ args' = <<dir, ang>>
       /\ ret' = Returns(Rotate3D(dir, m_components, ang))
       /\ UNCHANGED <<T, D, other_components, m_components, steps>>

\* (...).rotate<dir>(ang), chained: the call is made on the vector the
\* previous rotate of the same expression returned; args lists the operands
\* of the whole chain in call order
CallRotateChained ==
  /\ op = "rotate"
  /\ Len(args) < 2 * MaxChain
  /\ \E dir \in AngleDirs, ang \in Angles3D :
       /\ op' = "rotate"
       /\ args' = args \o <<dir, ang>>
       /\ ret' = Returns(Rotate3D(dir, ret.val, ang))
       /\ UNCHANGED <<T, D, other_components, m_components, steps>>

\* v.angle<dir>()
CallAngle ==
  /\ Idle
  /\ \E dir \in AngleDirs :
       /\ op' = "angle"
       /\ args' = <<dir>>
       /\ ret' = Returns(Angle3D(dir, m_components))
       /\ UNCHANGED <<T, D, other_components, m_components, steps>>

Next3D ==
  \/ Discard
  \/ Construct3D
  \/ CallCross
  \/ CallRotate
  \/ CallRotateChained
  \/ CallAngle

Spec3D == Init3D /\ [][Next3D]_vars

\* ---------------------------------------------------------------- Vector2D
\* the values the callers pass as x and y
Scalars2D == {R(-1), NegZero, R(0), R(1), R(2), NInf, Inf, NaN}

\* Vector2D v; (the inherited no-argument constructor)
Init2D ==
  /\ T = "double"
  /\ D = 2
  /\ m_components = VectorDefault(2)
  /\ other_components = VectorDefault(D)
  /\ op = "Vector()"
  /\ args = <<>>
  /\ ret = NoRet
  /\ steps = 0

\* Vector2D v(x, y);
Construct2D ==
  /\ Idle
  /\ \E x \in Scalars2D, y \in Scalars2D :
       /\ m_components' = Vector2DXY(x, y)
       /\ op' = "Vector2D(x, y)"
       /\ args' = <<x, y>>
       /\ ret' = NoRet
       /\ steps' = 0
       /\ UNCHANGED <<T, D, other_components>>

\* v.angle()
CallAngle2D ==
  /\ Idle
  /\ op' = "Vector2D::angle"
  /\ args' = <<>>
  /\ ret' = Returns(Angle2D(m_components))
  /\ UNCHANGED <<T, D, other_components, m_components, steps>>

Next2D ==
  \/ Discard
  \/ Construct2D
  \/ CallAngle2D

Spec2D == Init2D /\ [][Next2D]_vars

\* ------------------------------------------- Vector2D and Vector3D accessors
\* Vector2D v; or Vector3D v; (the inherited no-argument constructor)
InitXYZ ==
  /\ T = "double"
  /\ D \in {2, 3}
  /\ m_components = VectorDefault(D)
  /\ other_components = VectorDefault(D)
  /\ op = "Vector()"
  /\ args = <<>>
  /\ ret = NoRet
  /\ steps = 0

NextXYZ ==
  \/ Discard
  \/ ConstructInitList
  \/ ReadIndex
  \/ WriteIndex
  \/ CallGetX
  \/ CallGetY
  \/ CallGetZ
  \/ CallSetX
  \/ CallSetY
  \/ CallSetZ

SpecXYZ == InitXYZ /\ [][NextXYZ]_vars

\* --------------------------------------------------------------------- copy
\* Vector<D, T> w{list}; the second object is constructed
ConstructOther ==
  /\ Idle
  /\ \E list \in InitLists(T, D) :
       /\ other_components' = VectorInitList(D, list)
       /\ op' = "w: Vector(initializer_list)"
       /\ args' = <<list>>
       /\ ret' = NoRet
       /\ UNCHANGED <<T, D, m_components, steps>>

\* Vector<D, T> v(w); the object is constructed as a copy of the second one
CopyConstruct ==
  /\ Idle
  /\ m_components' = VectorCopy(other_components)
  /\ op' = "Vector(const Vector &)"
  /\ args' = <<>>
  /\ ret' = NoRet
  /\ steps' = 0
  /\ UNCHANGED <<T, D, other_components>>

\* v = w;
CallAssignOther ==
  /\ Idle
  /\ steps < MaxSteps
  /\ m_components' = OperatorAssign(m_components, other_components, FALSE).comp
  /\ op' = "operator=(w)"
  /\ args' = <<>>
  /\ ret' = OperatorAssign(m_components, other_components, FALSE).ret
  /\ steps' = steps + 1
  /\ UNCHANGED <<T, D, other_components>>

\* w[index] = x, index < D: the second object is mutated
WriteOther ==
  /\ Idle
  /\ steps < MaxSteps
  /\ \E index \in 0..(D - 1), x \in Scalars(T) :
       /\ other_components' = IndexAssign(other_components, index, x)
       /\ op' = "w: operator[]="
       /\ args' = <<index, x>>
       /\ ret' = NoRet
       /\ steps' = steps + 1
       /\ UNCHANGED <<T, D, m_components>>

NextCopy ==
  \/ Discard
  \/ ConstructOther
  \/ CopyConstruct
  \/ CallAssignOther
  \/ CallAssign
  \/ WriteIndex
  \/ WriteOther

SpecCopy == Init /\ [][NextCopy]_vars

\* ------------------------------------------------------------------ compare
\* v.compare(other), other a Vector<D2, T2> (through operator<, <=, >, >=)
CallCompare ==
  /\ Idle
  /\ \E t2 \in Types, d2 \in 0..MaxDim :
       \E other \in Vectors(t2, d2) :
         /\ op' = "compare"
         /\ args' = <<other, t2>>
         /\ ret' = Returns(Compare(T, t2, m_components, other))
         /\ UNCHANGED <<T, D, other_components, m_components, steps>>

NextCompare ==
  \/ Discard
  \/ ConstructInitList
  \/ CallCompare

SpecCompare == Init /\ [][NextCompare]_vars

\* ---------------------------------------------------------------- iteration
\* for (auto it = v.begin(); ...: the traversal starts; args collects the
\* components the loop body reads through *it, ret is the iterator; steps
\* counts the traversals started since construction
CallBegin ==
  /\ Idle
  /\ steps < MaxSteps
  /\ op' = "begin"
  /\ args' = <<>>
  /\ ret' = Begin(m_components)
  /\ steps' = steps + 1
  /\ UNCHANGED <<T, D, other_components, m_components>>

\* ...; it != v.end(); ++it) { ... *it ... }: one round of the loop
IterNext ==
  /\ op = "begin"
  /\ ret # End(m_components)
  /\ args' = Append(args, Deref(m_components, ret))
  /\ ret' = Incr(ret)
  /\ UNCHANGED <<T, D, other_components, m_components, op, steps>>

\* for (auto it = v.rbegin(); ...
CallRBegin ==
  /\ Idle
  /\ steps < MaxSteps
  /\ op' = "rbegin"
  /\ args' = <<>>
  /\ ret' = RBegin(m_components)
  /\ steps' = steps + 1
  /\ UNCHANGED <<T, D, other_components, m_components>>

\* ...; it != v.rend(); ++it) { ... *it ... }: one round of the loop
RIterNext ==
  /\ op = "rbegin"
  /\ ret # REnd(m_components)
  /\ args' = Append(args, Deref(m_components, ret))
  /\ ret' = Incr(ret)
  /\ UNCHANGED <<T, D, other_components, m_components, op, steps>>

\* Discard ends a loop: at it == end(), or earlier by a break
NextIter ==
  \/ Discard
  \/ ConstructInitList
  \/ CallBegin
  \/ IterNext
  \/ CallRBegin
  \/ RIterNext

\* a loop that has not ended goes on to its next round
SpecIter ==
  Init /\ [][NextIter]_vars /\ WF_vars(IterNext) /\ WF_vars(RIterNext)

\* ------------------------------------------------------------------- writes
\* *it = x; in the body of a loop over v.begin() .. v.end() or over
\* v.rbegin() .. v.rend(): args is the index of the component the iterator
\* points at and x, the iterator stays where it is
IterWrite ==
  /\ op \in {"begin", "rbegin"}
  /\ ret # End(m_components)
  /\ ret # REnd(m_components)
  /\ \E x \in Scalars(T) :
       /\ m_components' = DerefAssign(m_components, ret, x)
       /\ op' = "*it="
       /\ args' = <<IndexOf(ret), x>>
       /\ UNCHANGED <<T, D, other_components, ret, steps>>

\* Vector<D, T> v; or Vector2D v; or Vector3D v;
InitWrite == Init \/ InitXYZ

NextWrite ==
  \/ Discard
  \/ ConstructInitList
  \/ WriteIndex
  \/ WriteAt
  \/ CallSetX
  \/ CallSetY
  \/ CallSetZ
  \/ CallBegin
  \/ IterNext
  \/ CallRBegin
  \/ RIterNext
  \/ IterWrite

SpecWrite == InitWrite /\ [][NextWrite]_vars

\* ------------------------------------------------------ const member calls
\* the member functions declared const (and the constexpr numDimensions) of
\* a vector of type t and dimension d: those of Vector<D, T>, of Vector2D
\* for a Vector<2, double> and of Vector3D for a Vector<3, double>
ConstFns(t, d) ==
  {"operator+", "operator-", "operator*", "operator/", "operator==",
   "operator!=", "operator-()", "operator+()", "dot", "magn", "normalize",
   "numDimensions", "isZero", "toString", "compare"}
    \cup (IF t = "double" /\ d = 2 THEN {"Vector2D::angle", "Vector2D::rotate"}
          ELSE {})
    \cup (IF t = "double" /\ d = 3 THEN {"cross", "angle", "rotate"} ELSE {})

\* the operands a caller passes besides the vector operand: a scalar, an
\* angle, an axis tag
ConstOperands(fn, t) ==
  CASE fn = "operator*" -> Scalars(t)
    [] fn = "operator/" -> Divisors(t)
    [] fn = "Vector2D::rotate" -> Angles
    [] fn = "rotate" -> AngleDirs \X Angles3D
    [] fn = "angle" -> AngleDirs
    [] OTHER -> {<<>>}

\* what the call this->fn(other) or this->fn(x) returns
ConstResult(fn, t, this, other, x) ==
  CASE fn = "operator+" -> Returns(OperatorPlus(t, this, other))
    [] fn = "operator-" -> Returns(OperatorMinus(t, this, other))
    [] fn = "operator*" -> Returns(OperatorTimes(t, this, x))
    [] fn = "operator/" -> Returns(OperatorDivide(t, this, x))
    [] fn = "operator==" -> Returns(OperatorEqual(t, this, other))
    [] fn = "operator!=" -> Returns(OperatorNotEqual(t, this, other))
    [] fn = "operator-()" -> Returns(OperatorNeg(t, this))
    [] fn = "operator+()" -> Returns(OperatorPos(t, this))
    [] fn = "dot" -> Returns(Dot(t, this, other))
    [] fn = "magn" -> Returns(Magn(t, this))
    [] fn = "normalize" -> Normalize(t, this)
    [] fn = "numDimensions" -> Returns(NumDimensions(this))
    [] fn = "isZero" -> Returns(IsZero(t, this))
    [] fn = "toString" -> toString(t, this)
    [] fn = "compare" -> Returns(Compare(t, t, this, other))
    [] fn = "Vector2D::angle" -> Returns(Angle2D(this))
    [] fn = "Vector2D::rotate" -> Returns(Rotate2D(this, x))
    [] fn = "cross" -> Returns(Cross(this, other))
    [] fn = "angle" -> Returns(Angle3D(x, this))
    [] fn = "rotate" -> Returns(Rotate3D(x[1], this, x[2]))

\* member functions that work in place: a vector result of the receiver's
\* dimension is stored into the receiver as well
ConstMember_InPlace(fn, t, this, other, x) ==
  LET r == ConstResult(fn, t, this, other, x)
  IN  [comp |-> IF fn \in {"operator-()", "normalize", "Vector2D::rotate",
                           "rotate", "cross", "operator*"} /\ r.kind = "value"
                THEN r.val ELSE this,
       arg |-> other,
       ret |-> r]

\* a call of a const member function on the receiver this with the vector
\* operand other (taken by reference to const) and the operand x (taken by
\* value or by reference to const): the receiver and the operand after the
\* call, and what it returned.  The bodies build their result in a local
\* (tmp, result, str, xPrime ...) and assign to no component of *this or
\* of other.
ConstMember(fn, t, this, other, x) ==
  [comp |-> this, arg |-> other, ret |-> ConstResult(fn, t, this, other, x)]

\* what a build can do with a call whose behaviour is undefined
UndefinedOutcomes(fn, t, d) ==
  IF fn = "toString" THEN ToStringUndefined(t) ELSE NormalizeUndefined(t, d)

\* v.fn(w), v.fn(x), v.fn(): one call of a const member function on the
\* object, with the second object as its vector operand
CallConst ==
  /\ Idle
  /\ \E fn \in ConstFns(T, D) :
       \E x \in ConstOperands(fn, T) :
         LET r == ConstMember(fn, T, m_components, other_components, x)
         IN  /\ m_components' = r.comp
             /\ other_components' = r.arg
             /\ op' = fn
             /\ args' = <<x>>
             /\ IF r.ret = Undefined
                THEN ret' \in UndefinedOutcomes(fn, T, D)
                ELSE ret' = r.ret
             /\ UNCHANGED <<T, D, steps>>

NextConst ==
  \/ Discard
  \/ ConstructInitList
  \/ ConstructOther
  \/ CallConst
  \/ ReadAt
  \/ WriteAt

SpecConst == InitWrite /\ [][NextConst]_vars

\* ------------------------------------------------------------------ threads
\* Two threads, each working on its own instance: thread 1 on the object v
\* (m_components), thread 2 on the object w (other_components).  A thread
\* makes one call; args holds the frame of each thread: the member function
\* fn, its operand other (a value of the thread's own), the number i of
\* rounds of its loop made so far, and start, the value its instance had
\* when the thread was started.  One step of a thread is one round of the
\* loop of the call (one component).
ThreadFns1 == {"operator+=", "operator*="}

ThreadFns2 == {"operator-=", "operator/=", "operator[]="}

\* the operands a thread passes to fn on an instance of dimension d
ThreadOperands(fn, t, d) ==
  CASE fn \in {"operator+=", "operator-="} -> {Fill(d, x) : x \in Scalars(t)}
    [] fn = "operator*=" -> Scalars(t)
    [] fn = "operator/=" -> Divisors(t)
    [] fn = "operator[]=" -> (0..(d - 1)) \X Scalars(t)

\* the rounds the call makes: D for the loop of an in-place operator, the
\* single store for v[index] = x
FrameRounds(fn, d) == IF fn = "operator[]=" THEN 1 ELSE d

\* the body of the loop of fn at index i (one store for operator[]=)
InPlaceRound(fn, t, this, other, i) ==
  CASE fn = "operator+=" ->
         [this EXCEPT ![i + 1] = TAdd(t, this[i + 1], Index(other, i))]
    [] fn = "operator-=" ->
         [this EXCEPT ![i + 1] = TSub(t, this[i + 1], Index(other, i))]
    [] fn = "operator*=" -> [this EXCEPT ![i + 1] = TMul(t, this[i + 1], other)]
    [] fn = "operator/=" -> [this EXCEPT ![i + 1] = TDiv(t, this[i + 1], other)]
    [] fn = "operator[]=" -> IndexAssign(this, other[1], other[2])

\* the whole call, as one thread alone makes it
InPlaceCall(fn, t, this, other) ==
  CASE fn = "operator+=" -> OperatorPlusAssign(t, this, other).comp
    [] fn = "operator-=" -> OperatorMinusAssign(t, this, other).comp
    [] fn = "operator*=" -> OperatorTimesAssign(t, this, other).comp
    [] fn = "operator/=" -> OperatorDivideAssign(t, this, other).comp
    [] fn = "operator[]=" -> IndexAssign(this, other[1], other[2])

\* the memory the two threads run in: the two instances
Instances == <<m_components, other_components>>

\* a round that keeps its result in storage shared by all instances (the
\* first instance) instead of the instance it is called on
ThreadRound_SharedStorage(t, mem, k, frame) ==
  [mem EXCEPT ![1] = InPlaceRound(frame.fn, t, mem[k], frame.other, frame.i)]

\* one round of the call of thread k: it reads and writes this->m_components
\* of its own instance and its operand, nothing else
ThreadRound(t, mem, k, frame) ==
  [mem EXCEPT ![k] = InPlaceRound(frame.fn, t, mem[k], frame.other, frame.i)]

\* Vector<D, T> v{list}, w{list2}; the two instances are given their values
\* before the threads are started
ConstructPair ==
  /\ op = "Vector()"
  /\ \E list \in Vectors(T, D), list2 \in Vectors(T, D) :
       /\ m_components' = VectorInitList(D, list)
       /\ other_components' = VectorInitList(D, list2)
       /\ op' = "v, w: Vector(initializer_list)"
       /\ args' = <<list, list2>>
       /\ ret' = NoRet
       /\ steps' = 0
       /\ UNCHANGED <<T, D>>

\* std::thread t1([&] { v.fn1(other1); }), t2([&] { w.fn2(other2); });
Spawn ==
  /\ op = "v, w: Vector(initializer_list)"
  /\ \E fn1 \in ThreadFns1, fn2 \in ThreadFns2 :
       \E other1 \in ThreadOperands(fn1, T, D),
          other2 \in ThreadOperands(fn2, T, D) :
         /\ op' = "threads"
         /\ args' = <<[fn |-> fn1, other |-> other1, i |-> 0,
                       start |-> m_components],
                      [fn |-> fn2, other |-> other2, i |-> 0,
                       start |-> other_components]>>
         /\ ret' = NoRet
         /\ steps' = steps + 1
         /\ UNCHANGED <<T, D, m_components, other_components>>

\* thread 1 makes the next round of its call on v
ThreadRoundV ==
  /\ op = "threads"
  /\ args[1].i < FrameRounds(args[1].fn, D)
  /\ m_components' = ThreadRound(T, Instances, 1, args[1])[1]
  /\ other_components' = ThreadRound(T, Instances, 1, args[1])[2]
  /\ args' = [args EXCEPT ![1].i = @ + 1]
  /\ UNCHANGED <<T, D, op, ret, steps>>

\* thread 2 makes the next round of its call on w
ThreadRoundW ==
  /\ op = "threads"
  /\ args[2].i < FrameRounds(args[2].fn, D)
  /\ m_components' = ThreadRound(T, Instances, 2, args[2])[1]
  /\ other_components' = ThreadRound(T, Instances, 2, args[2])[2]
  /\ args' = [args EXCEPT ![2].i = @ + 1]
  /\ UNCHANGED <<T, D, op, ret, steps>>

\* both calls have returned
ThreadsDone ==
  /\ op = "threads"
  /\ args[1].i = FrameRounds(args[1].fn, D)
  /\ args[2].i = FrameRounds(args[2].fn, D)

\* t1.join(); t2.join();
Join ==
  /\ ThreadsDone
  /\ op' = "idle"
  /\ args' = <<>>
  /\ ret' = NoRet
  /\ UNCHANGED <<T, D, m_components, other_components, steps>>

NextThreads ==
  \/ ConstructPair
  \/ Spawn
  \/ ThreadRoundV
  \/ ThreadRoundW
  \/ Join

SpecThreads == Init /\ [][NextThreads]_vars

\* ---------------------------------------------------------------- aliasing
\* The operand of operator+=, operator-= and operator= is a reference to
\* const: a call a.fn(b) reads the object b names as it is when the read
\* is made.  Objects are named by their place in the memory mem (1 is v,
\* 2 is w); a = b is the call v.fn(v).
RefFns == {"operator+=", "operator-=", "operator="}

\* the body of the loop of fn at index i, other being the operand object
\* as it is at this round
RefRound(fn, t, this, other, i) ==
  IF fn = "operator=" THEN [this EXCEPT ![i + 1] = Index(other, i)]
  ELSE InPlaceRound(fn, t, this, other, i)

RECURSIVE RefLoop(_, _, _, _, _, _)
\* for (i = 0; i < D; i++) { ... this->m_components[i] ... other[i] ... }
RefLoop(fn, t, mem, a, b, i) ==
  IF i >= NumDimensions(mem[a]) THEN mem
  ELSE RefLoop(fn, t,
               [mem EXCEPT ![a] = RefRound(fn, t, mem[a], mem[b], i)],
               a, b, i + 1)

\* loops that read the operand from its last component down while they
\* write the receiver from its first component up
RefCall_ReversedRead(fn, t, mem, a, b) ==
  LET d == NumDimensions(mem[a])
      RECURSIVE Loop(_, _)
      Loop(m, i) ==
        IF i >= d THEN m
        ELSE Loop([m EXCEPT ![a][i + 1] =
                     RefRound(fn, t, <<m[a][i + 1]>>, <<m[b][d - i]>>, 0)[1]],
                  i + 1)
  IN  IF fn = "operator=" /\ a = b THEN mem ELSE Loop(mem, 0)

\* the memory after the call a.fn(b); operator= returns at once when
\* this == &other
RefCall(fn, t, mem, a, b) ==
  IF fn = "operator=" /\ a = b THEN mem ELSE RefLoop(fn, t, mem, a, b, 0)

\* v.fn(v) or v.fn(w), fn one of +=, -=, =, on an object no call has
\* written since it was constructed
CallRef ==
  /\ Idle
  /\ steps = 0
  /\ \E fn \in RefFns, b \in {1, 2} :
       /\ m_components' = RefCall(fn, T, Instances, 1, b)[1]
       /\ other_components' = RefCall(fn, T, Instances, 1, b)[2]
       /\ op' = fn
       /\ args' = <<b>>
       /\ ret' = RefThis
       /\ steps' = steps + 1
       /\ UNCHANGED <<T, D>>

NextAlias ==
  \/ Discard
  \/ ConstructInitList
  \/ ConstructOther
  \/ CallRef

SpecAlias == Init /\ [][NextAlias]_vars

\* ------------------------------------------------------------------ claims
Min(a, b) == IF a < b THEN a ELSE b

\* C1: for every valid index i < D and every vector reached by construction
\* followed by any sequence of mutations, checked access at(i) returns the
\* same component as unchecked access [i] (in every state between two
\* calls, and for every recorded at(i) call).
C1_AtEqualsIndex ==
  /\ Idle =>
       \A i \in 0..(D - 1) : At(m_components, i) = Returns(Index(m_components, i))
  /\ (op = "at" /\ args[1] < D) => ret = Returns(Index(m_components, args[1]))

\* C1 witness: at(i) with a valid i read a non-zero component of a vector
\* that has been mutated twice.
C1_Witness ==
  /\ op = "at"
  /\ steps >= 2
  /\ D >= 2
  /\ args[1] = D - 1
  /\ ret.kind = "value"
  /\ ret.val # Zero

\* C2: checked access, read-only and mutable, raises std::out_of_range
\* exactly when the index is >= D (for every index when D = 0), and never
\* for an index < D (in every state between two calls, and for every
\* recorded at() call).
C2_AtRaisesIffOutOfRange ==
  /\ Idle =>
       \A i \in 0..(MaxDim + 1) :
         /\ (At(m_components, i) = OutOfRange) <=> (i >= D)
         /\ \A x \in Scalars(T) :
              (AtAssign(m_components, i, x).ret = OutOfRange) <=> (i >= D)
  /\ op \in {"at", "at="} => ((ret = OutOfRange) <=> (args[1] >= D))

\* C2 witness: a mutable at(D) on a vector of dimension D >= 1 raised.
C2_Witness ==
  /\ op = "at="
  /\ D >= 1
  /\ args[1] = D
  /\ ret = OutOfRange

\* Vector<5> from {3,5,2} is <3,5,2,0,0>, and from {3,5,2,3.5,6,39,2,6} it
\* is <3,5,2,3.5,6>
C3_Examples ==
  /\ VectorInitList(5, <<R(3), R(5), R(2)>>) = <<R(3), R(5), R(2), R(0), R(0)>>
  /\ VectorInitList(5, <<R(3), R(5), R(2), <<7, 2>>, R(6), R(39), R(2), R(6)>>)
       = <<R(3), R(5), R(2), <<7, 2>>, R(6)>>

\* C3: after Vector(initializer_list) with n initializers component i is the
\* i-th initializer for i < min(n, D) and 0 for min(n, D) <= i < D, the
\* initializers at positions >= D are ignored without error; after Vector()
\* every component is 0.
C3_ConstructionFill ==
  /\ op = "Vector(initializer_list)" =>
       /\ Len(m_components) = D
       /\ ret = NoRet
       /\ \A i \in 0..(D - 1) :
            m_components[i + 1] =
              IF i < Min(Len(args[1]), D) THEN args[1][i + 1] ELSE Zero
  /\ op = "Vector()" =>
       /\ Len(m_components) = D
       /\ \A i \in 0..(D - 1) : m_components[i + 1] = Zero
  /\ C3_Examples

\* C3 witness: a vector of dimension 2 built from three non-zero
\* initializers, the third one dropped.
C3_Witness ==
  /\ op = "Vector(initializer_list)"
  /\ D = 2
  /\ Len(args[1]) = 3
  /\ \A i \in 1..3 : args[1][i] # Zero
  /\ m_components = <<args[1][1], args[1][2]>>

\* no component of the vector is a NaN
NoNaN(vec) == \A i \in 1..Len(vec) : ~IsNaN(vec[i])

\* a vector of doubles with the given integer components
Vec(ints) == [i \in 1..Len(ints) |-> R(ints[i])]

\* C4 (as claimed): a == b iff every pair of components compares equal,
\* a != b is the negation of a == b, and for every vector v, v == v is true
\* and v != v is false.
C4_Original ==
  /\ op = "operator==" =>
       ret.val = (\A i \in 1..D : TEq(T, m_components[i], args[1][i]))
  /\ op = "operator!=" => ret.val = ~OperatorEqual(T, m_components, args[1])
  /\ (op = "operator==" /\ args[1] = m_components) => ret.val = TRUE
  /\ (op = "operator!=" /\ args[1] = m_components) => ret.val = FALSE

\* C4 (amended): a == b iff every pair of components compares equal with the
\* component type's exact ==, a != b is the negation of a == b, and v == v is
\* true (v != v false) exactly for the vectors v without a NaN component.
C4_EqualityExact ==
  /\ op = "operator==" =>
       ret.val = (\A i \in 1..D : TEq(T, m_components[i], args[1][i]))
  /\ op = "operator!=" => ret.val = ~OperatorEqual(T, m_components, args[1])
  /\ (op = "operator==" /\ args[1] = m_components) =>
       (ret.val <=> NoNaN(m_components))
  /\ (op = "operator!=" /\ args[1] = m_components) =>
       (ret.val <=> ~NoNaN(m_components))
  /\ Idle =>
       (OperatorEqual(T, m_components, m_components) <=> NoNaN(m_components))

\* C4 witness: v == v returned true for a mutated two-dimensional vector
\* with two different non-zero components.
C4_Witness ==
  /\ op = "operator=="
  /\ D = 2
  /\ steps >= 1
  /\ args[1] = m_components
  /\ m_components[1] # Zero
  /\ m_components[2] # Zero
  /\ m_components[1] # m_components[2]
  /\ ret.val = TRUE

\* (2,5)+(3,-4) = (5,1), (2,5)-(3,-4) = (-1,9), (2,5)*3 = (6,15),
\* (2,5)/3 = (2/3,5/3), -(2,5) = (-2,-5), +(2,5) = (2,5)
C5_Examples ==
  /\ OperatorPlus("double", Vec(<<2, 5>>), Vec(<<3, -4>>)) = Vec(<<5, 1>>)
  /\ OperatorMinus("double", Vec(<<2, 5>>), Vec(<<3, -4>>)) = Vec(<<-1, 9>>)
  /\ OperatorTimes("double", Vec(<<2, 5>>), R(3)) = Vec(<<6, 15>>)
  /\ OperatorDivide("double", Vec(<<2, 5>>), R(3)) = <<<<2, 3>>, <<5, 3>>>>
  /\ OperatorNeg("double", Vec(<<2, 5>>)) = Vec(<<-2, -5>>)
  /\ OperatorPos("double", Vec(<<2, 5>>)) = Vec(<<2, 5>>)

\* C5: every non-mutating arithmetic operator is component-wise: a recorded
\* a + b, a - b, a * k, a / k, -a, +a returned a vector of dimension D whose
\* component i is a[i] + b[i], a[i] - b[i], a[i] * k, a[i] / k, -a[i], a[i]
\* (computed in T); (2,5)+(3,-4) = (5,1), (2,5)-(3,-4) = (-1,9),
\* (2,5)*3 = (6,15), -(2,5) = (-2,-5).
C5_ComponentWise ==
  /\ op \in {"operator+", "operator-", "operator*", "operator/",
             "operator-()", "operator+()"} => Len(ret.val) = D
  /\ op = "operator+" =>
       \A i \in 1..D : ret.val[i] = TAdd(T, m_components[i], args[1][i])
  /\ op = "operator-" =>
       \A i \in 1..D : ret.val[i] = TSub(T, m_components[i], args[1][i])
  /\ op = "operator*" =>
       \A i \in 1..D : ret.val[i] = TMul(T, m_components[i], args[1])
  /\ op = "operator/" =>
       \A i \in 1..D : ret.val[i] = TDiv(T, m_components[i], args[1])
  /\ op = "operator-()" =>
       \A i \in 1..D : ret.val[i] = TNeg(T, m_components[i])
  /\ op = "operator+()" =>
       \A i \in 1..D : ret.val[i] = m_components[i]
  /\ C5_Examples

\* C5 witness: a - b on two-dimensional vectors returned a vector that
\* differs from a and has two different components.
C5_Witness ==
  /\ op = "operator-"
  /\ D = 2
  /\ ret.val # m_components
  /\ ret.val[1] # ret.val[2]
  /\ NoNaN(ret.val)

\* (2,5) += (3,6), -= (2,3), *= 5, /= 7 ends at (15/7, 40/7)
C6_Example ==
  OperatorDivideAssign("double",
    OperatorTimesAssign("double",
      OperatorMinusAssign("double",
        OperatorPlusAssign("double", Vec(<<2, 5>>), Vec(<<3, 6>>)).comp,
        Vec(<<2, 3>>)).comp,
      R(5)).comp,
    R(7)).comp = <<<<15, 7>>, <<40, 7>>>>

\* one step of C6: what each in-place operator does to the object
C6_InPlaceStep ==
  /\ op' = "operator+=" =>
       /\ m_components' = OperatorPlus(T, m_components, args'[1])
       /\ ret' = RefThis
  /\ op' = "operator-=" =>
       /\ m_components' = OperatorMinus(T, m_components, args'[1])
       /\ ret' = RefThis
  /\ op' = "operator*=" =>
       /\ m_components' = OperatorTimes(T, m_components, args'[1])
       /\ ret' = RefThis
  /\ op' = "operator/=" =>
       /\ m_components' = OperatorDivide(T, m_components, args'[1])
       /\ ret' = RefThis
  /\ C6_Example

\* C6: each in-place operator (+=, -=, *=, /=) leaves the object equal to
\* the result of the corresponding non-mutating operator on its previous
\* value and returns a reference to the object itself; applied in sequence
\* to (2,5), += (3,6), -= (2,3), *= 5, /= 7 end at (15/7, 40/7).
C6_InPlace == [][C6_InPlaceStep]_vars

\* C6 witness: the second of two mutating calls was a /= on a
\* two-dimensional vector, which changed it and returned *this.
C6_Witness ==
  /\ op = "operator/="
  /\ steps = 2
  /\ D = 2
  /\ ret = RefThis
  /\ m_components # VectorDefault(2)
  /\ m_components # OperatorTimes(T, m_components, args[1])

\* C7 (as claimed): for all vectors a, b of the same dimension,
\* a + b == b + a.
C7_Original ==
  op = "operator+" =>
    OperatorEqual(T, ret.val, OperatorPlus(T, args[1], m_components))

\* C7 (amended): a + b and b + a have the same components, and
\* a + b == b + a is true exactly when no component of the sum is a NaN.
C7_PlusCommutes ==
  op = "operator+" =>
    /\ ret.val = OperatorPlus(T, args[1], m_components)
    /\ OperatorEqual(T, ret.val, OperatorPlus(T, args[1], m_components))
         <=> NoNaN(ret.val)

\* C7 witness: a + b for two different two-dimensional vectors, the sum
\* without a NaN and different from both.
C7_Witness ==
  /\ op = "operator+"
  /\ D = 2
  /\ args[1] # m_components
  /\ NoNaN(ret.val)
  /\ ret.val # m_components
  /\ ret.val # args[1]

RECURSIVE SumOfProducts(_, _, _, _)
\* a[0]*b[0] + ... + a[n-1]*b[n-1] in T, 0 for n = 0
SumOfProducts(t, a, b, n) ==
  IF n = 0 THEN Zero
  ELSE TAdd(t, SumOfProducts(t, a, b, n - 1), TMul(t, a[n], b[n]))

\* dot((2,5), (-3,-4)) is -26 and dot((2,5,6), (-3,-4,2)) is -14
C8_Examples ==
  /\ Dot("double", Vec(<<2, 5>>), Vec(<<-3, -4>>)) = R(-26)
  /\ Dot("double", Vec(<<2, 5, 6>>), Vec(<<-3, -4, 2>>)) = R(-14)

\* C8 (as claimed): dot(a, b) is the sum over i < D of a[i] * b[i] (0 for
\* D = 0) and dot(a, b) == dot(b, a); dot((2,5), (-3,-4)) == -26 and
\* dot((2,5,6), (-3,-4,2)) == -14.
C8_Original ==
  /\ op = "dot" =>
       /\ ret.val = SumOfProducts(T, m_components, args[1], D)
       /\ TEq(T, ret.val, Dot(T, args[1], m_components))
  /\ C8_Examples

\* C8 (amended): dot(a, b) is the sum over i < D of a[i] * b[i] (0 for
\* D = 0); dot(a, b) and dot(b, a) are the same value, and
\* dot(a, b) == dot(b, a) is true exactly when that value is not a NaN;
\* dot((2,5), (-3,-4)) == -26 and dot((2,5,6), (-3,-4,2)) == -14.
C8_DotSymmetric ==
  /\ op = "dot" =>
       /\ ret.val = SumOfProducts(T, m_components, args[1], D)
       /\ ret.val = Dot(T, args[1], m_components)
       /\ TEq(T, ret.val, Dot(T, args[1], m_components)) <=> ~IsNaN(ret.val)
       /\ D = 0 => ret.val = Zero
  /\ C8_Examples

\* C8 witness: a dot product of two-dimensional vectors to which both
\* components contributed a non-zero product, the result not a NaN.
C8_Witness ==
  /\ op = "dot"
  /\ D = 2
  /\ ~IsNaN(ret.val)
  /\ TMul(T, m_components[1], args[1][1]) # Zero
  /\ TMul(T, m_components[2], args[1][2]) # Zero
  /\ ret.val # Zero

\* (a.y*b.z - a.z*b.y, a.z*b.x - a.x*b.z, a.x*b.y - a.y*b.x)
CrossFormula(a, b) ==
  <<TSub("double", TMul("double", a[2], b[3]), TMul("double", a[3], b[2])),
    TSub("double", TMul("double", a[3], b[1]), TMul("double", a[1], b[3])),
    TSub("double", TMul("double", a[1], b[2]), TMul("double", a[2], b[1]))>>

\* cross((2,3,5), (1,2,3)) is (-1,-1,1) and cross((2,5,-3), (6,5,9)) is
\* (60,-36,-20)
C9_Examples ==
  /\ Cross(Vec(<<2, 3, 5>>), Vec(<<1, 2, 3>>)) = Vec(<<-1, -1, 1>>)
  /\ Cross(Vec(<<2, 5, -3>>), Vec(<<6, 5, 9>>)) = Vec(<<60, -36, -20>>)

\* C9 (as claimed): cross(a, b) is (a.y*b.z - a.z*b.y, a.z*b.x - a.x*b.z,
\* a.x*b.y - a.y*b.x) and cross(a, b) == -cross(b, a) for all 3-D a, b;
\* cross((2,3,5), (1,2,3)) == (-1,-1,1), cross((2,5,-3), (6,5,9)) ==
\* (60,-36,-20).
C9_Original ==
  /\ op = "cross" =>
       /\ ret.val = CrossFormula(m_components, args[1])
       /\ OperatorEqual("double", ret.val,
                        OperatorNeg("double", Cross(args[1], m_components)))
  /\ C9_Examples

\* C9 (amended): cross(a, b) is (a.y*b.z - a.z*b.y, a.z*b.x - a.x*b.z,
\* a.x*b.y - a.y*b.x); cross(a, b) and -cross(b, a) have the same
\* components, and cross(a, b) == -cross(b, a) is true exactly when no
\* component of the product is a NaN; cross((2,3,5), (1,2,3)) == (-1,-1,1),
\* cross((2,5,-3), (6,5,9)) == (60,-36,-20).
C9_CrossAntiCommutes ==
  /\ op = "cross" =>
       /\ ret.val = CrossFormula(m_components, args[1])
       /\ ret.val = OperatorNeg("double", Cross(args[1], m_components))
       /\ OperatorEqual("double", ret.val,
                        OperatorNeg("double", Cross(args[1], m_components)))
            <=> NoNaN(ret.val)
  /\ C9_Examples

\* C9 witness: a cross product whose three components are finite and
\* non-zero.
C9_Witness ==
  /\ op = "cross"
  /\ \A i \in 1..3 : IsFinite(ret.val[i]) /\ ret.val[i] # Zero

\* isZero() is false for {2,5,3,0,0} and true for {0,0,0,0,0}
C10_Examples ==
  /\ ~IsZero("double", Vec(<<2, 5, 3, 0, 0>>))
  /\ IsZero("double", Vec(<<0, 0, 0, 0, 0>>))

\* C10 (as claimed): for every arithmetic component type T and every vector
\* v, isZero() returns true exactly when every component of v is 0; magn()
\* of an all-zero vector is exactly 0; isZero() is false for {2,5,3,0,0} and
\* true for {0,0,0,0,0}.
C10_Original ==
  /\ op = "isZero" =>
       (ret.val <=> \A i \in 1..D : m_components[i] = Zero)
  /\ op = "magn" =>
       ((\A i \in 1..D : m_components[i] = Zero) => ret.val = Zero)
  /\ C10_Examples

\* C11: a zero-dimension vector Vector<0> is a zero vector in every
\* reachable state: between two calls isZero() would return true, and every
\* recorded isZero() call on it returned true, whatever was applied before.
C11_ZeroDimIsZero ==
  D = 0 =>
    /\ Idle => IsZero(T, m_components)
    /\ op = "isZero" => ret = Returns(TRUE)

\* isZero() was called on a Vector<0> after a mutating call
C11_Witness ==
  /\ D = 0
  /\ steps > 0
  /\ op = "isZero"
  /\ ret = Returns(TRUE)

\* the right-handed rotation matrix about the axis dir applied to (x, y, z)
\* with cosine c and sine s
RotationMatrix(dir, x, y, z, c, s) ==
  LET Mul(a, b) == TMul("double", a, b)
      Add(a, b) == TAdd("double", a, b)
      Sub(a, b) == TSub("double", a, b)
      Neg(a) == TNeg("double", a)
  IN  CASE dir = "ALPHA" -> <<x, Sub(Mul(y, c), Mul(z, s)), Add(Mul(y, s), Mul(z, c))>>
        [] dir = "BETA" -> <<Add(Mul(x, c), Mul(z, s)), y, Add(Mul(Neg(x), s), Mul(z, c))>>
        [] dir = "GAMMA" -> <<Sub(Mul(x, c), Mul(y, s)), Add(Mul(x, s), Mul(y, c)), z>>

\* where a quarter turn about the axis dir takes (x, y, z)
QuarterTurn(dir, x, y, z) ==
  CASE dir = "ALPHA" -> <<x, TNeg("double", z), y>>
    [] dir = "BETA" -> <<z, y, TNeg("double", x)>>
    [] dir = "GAMMA" -> <<TNeg("double", y), x, z>>

\* the two components a rotation about dir transforms
Transformed(dir, v) ==
  CASE dir = "ALPHA" -> {v[2], v[3]}
    [] dir = "BETA" -> {v[1], v[3]}
    [] dir = "GAMMA" -> {v[1], v[2]}

\* the rotations of the tests and of the README
C12_Examples ==
  /\ Rotate3D("ALPHA", Vec(<<3, 4, 0>>), "M_PI_2") = Vec(<<3, 0, 4>>)
  /\ Rotate3D("ALPHA", Vec(<<3, 4, 0>>), "-M_PI_2") = Vec(<<3, 0, -4>>)
  /\ Rotate3D("BETA", Vec(<<4, 3, 0>>), "M_PI_2") = Vec(<<0, 3, -4>>)
  /\ Rotate3D("BETA", Vec(<<4, 3, 0>>), "-M_PI_2") = Vec(<<0, 3, 4>>)
  /\ Rotate3D("ALPHA", Vec(<<1, 0, 1>>), "M_PI_2") = Vec(<<1, -1, 0>>)
  /\ Rotate3D("BETA", Vec(<<1, 0, 1>>), "M_PI_2") = Vec(<<1, 0, -1>>)
  /\ Rotate3D("GAMMA", Vec(<<1, 0, 1>>), "M_PI_2") = Vec(<<0, 1, 1>>)
  /\ Rotate3D("GAMMA", Vec(<<5, 10, 3>>), "atan2(4, 3)") = Vec(<<-5, 10, 3>>)

AxisOf(dir) ==
  CASE dir = "ALPHA" -> 1
    [] dir = "BETA" -> 2
    [] dir = "GAMMA" -> 3

\* every tag of the recorded rotate or angle calls
TagsUsed == {args[i] : i \in {j \in 1..Len(args) : j % 2 = 1}}

\* what the claim says of a call with the tag dir on the vector v
Dispatched(dir, v) ==
  /\ (op = "rotate" /\ Len(args) = 2) =>
       ret.val = RotationMatrix(dir, v[1], v[2], v[3], Cos(args[2]), Sin(args[2]))
  /\ op = "angle" =>
       ret.val = Acos(TDiv("double", v[AxisOf(dir)], Magn("double", v)))

\* C13 as stated: rotate<ALPHA/BETA/GAMMA> and angle<ALPHA/BETA/GAMMA> are
\* the x, y and z rotation and angle, and no call is made with another tag.
C13_Original ==
  op \in {"rotate", "angle"} =>
    /\ TagsUsed \subseteq {"ALPHA", "BETA", "GAMMA"}
    /\ args[1] \in {"ALPHA", "BETA", "GAMMA"} => Dispatched(args[1], m_components)

\* C13: rotate<ALPHA/BETA/GAMMA> and angle<ALPHA/BETA/GAMMA> are the x, y
\* and z rotation and the angle to the x, y and z axis (acos of the
\* component over the magnitude); a call with any other value of the tag
\* type is accepted too and behaves as the call with GAMMA.
C13_Dispatch ==
  op \in {"rotate", "angle"} =>
    IF args[1] \in {"ALPHA", "BETA", "GAMMA"}
    THEN Dispatched(args[1], m_components)
    ELSE Dispatched("GAMMA", m_components)

\* angle<BETA>() of (2, -1, 2), whose magnitude is 3: acos(-1/3)
C13_Witness ==
  /\ op = "angle"
  /\ args = <<"BETA">>
  /\ m_components = Vec(<<2, -1, 2>>)
  /\ ret = Returns(<<-1, 3, 1, -1>>)

\* the rotation matrix of the tag dir (a tag that is no enumerator acts as
\* GAMMA) and of the angle ang applied to v
Rotated(dir, v, ang) ==
  RotationMatrix(IF dir \in {"ALPHA", "BETA", "GAMMA"} THEN dir ELSE "GAMMA",
                 v[1], v[2], v[3], Cos(ang), Sin(ang))

RECURSIVE ApplyChain(_, _, _)
\* the rotations (tag chain[i], angle chain[i + 1]), (chain[i + 2],
\* chain[i + 3]), ... applied to v one after the other, the first one first
ApplyChain(v, chain, i) ==
  IF i > Len(chain) THEN v
  ELSE ApplyChain(Rotated(chain[i], v, chain[i + 1]), chain, i + 2)

\* the chained rotation of the README
C14_Example ==
  Rotate3D("GAMMA",
           Rotate3D("BETA", Rotate3D("ALPHA", Vec(<<1, 0, 1>>), "M_PI_2"), "M_PI_2"),
           "M_PI_2") = Vec(<<1, 0, -1>>)

\* a vector and two axes for which the order of two quarter turns matters
C14_OrderMatters ==
  \E v \in {Vec(<<1, 0, 0>>)}, d1 \in {"ALPHA", "BETA", "GAMMA"}, d2 \in {"ALPHA", "BETA", "GAMMA"} :
    Rotate3D(d2, Rotate3D(d1, v, "M_PI_2"), "M_PI_2")
      # Rotate3D(d1, Rotate3D(d2, v, "M_PI_2"), "M_PI_2")

\* C14: the vector a chain v.rotate<d1>(t1).rotate<d2>(t2)... returns is the
\* rotations applied in call order, each to the result of the one before;
\* (1, 0, 1) turned a quarter about x, then y, then z is (1, 0, -1); and
\* there are a vector and two axes for which the order changes the result.
C14_ChainInCallOrder ==
  /\ op = "rotate" => ret.val = ApplyChain(m_components, args, 1)
  /\ C14_Example
  /\ C14_OrderMatters

\* (2, 0, 2) turned a quarter about x, then y, then z: (2, 0, -2)
C14_Witness ==
  /\ op = "rotate"
  /\ m_components = Vec(<<2, 0, 2>>)
  /\ args = <<"ALPHA", "M_PI_2", "BETA", "M_PI_2", "GAMMA", "M_PI_2">>
  /\ ret = Returns(Vec(<<2, 0, -2>>))

\* the quarter turns of the unit vectors
C15_Examples ==
  /\ Rotate2D(Vec(<<1, 0>>), "M_PI_2") = Vec(<<0, 1>>)
  /\ Rotate2D(Vec(<<0, 1>>), "M_PI_2") = Vec(<<-1, 0>>)
  /\ Rotate2D(Vec(<<1, 0>>), "-M_PI_2") = Vec(<<0, -1>>)
  /\ Rotate2D(Vec(<<5, 10>>), "atan2(4, 3)") = Vec(<<-5, 10>>)

NamedEqualIndexed(v) ==
  /\ TEq("double", GetX(v), Index(v, 0))
  /\ TEq("double", GetY(v), Index(v, 1))
  /\ Len(v) = 3 => TEq("double", GetZ(v), Index(v, 2))

\* x(), y(), z() return the components v[0], v[1], v[2]
NamedReturnIndexed(v) ==
  /\ GetX(v) = Index(v, 0)
  /\ GetY(v) = Index(v, 1)
  /\ Len(v) = 3 => GetZ(v) = Index(v, 2)

\* what a recorded getter, setter or indexed write shows of the aliasing
AccessorCalls ==
  /\ op = "x()" => ret = Returns(Index(m_components, 0))
  /\ op = "y()" => ret = Returns(Index(m_components, 1))
  /\ op = "z()" => ret = Returns(Index(m_components, 2))
  /\ op = "x(newX)" => GetX(m_components) = args[1] /\ Index(m_components, 0) = args[1]
  /\ op = "y(newY)" => GetY(m_components) = args[1] /\ Index(m_components, 1) = args[1]
  /\ op = "z(newZ)" => GetZ(m_components) = args[1] /\ Index(m_components, 2) = args[1]
  /\ (op = "operator[]=" /\ args[1] = 0) => GetX(m_components) = args[2]
  /\ (op = "operator[]=" /\ args[1] = 1) => GetY(m_components) = args[2]
  /\ (op = "operator[]=" /\ args[1] = 2) => GetZ(m_components) = args[2]

\* C16 as stated: in every reachable state x() == v[0], y() == v[1] and
\* z() == v[2]; after a setter the getter and the indexed read return the
\* value set; a value written through v[i] is returned by the getter.
C16_Original ==
  /\ Idle => NamedEqualIndexed(m_components)
  /\ AccessorCalls

\* C16: in every reachable state x(), y() and z() return the components
\* v[0], v[1] and v[2], and x() == v[0], y() == v[1], z() == v[2] are true
\* unless the component is a NaN; after a setter the getter and the indexed
\* read return the value set; a value written through v[i] is returned by
\* the getter.
C16_AccessorsAlias ==
  /\ Idle =>
       /\ NamedReturnIndexed(m_components)
       /\ NoNaN(m_components) => NamedEqualIndexed(m_components)
  /\ AccessorCalls

\* y() of a Vector3D after an indexed write and the setter x: the getter
\* returns what v[1] = 1 stored
C16_Witness ==
  /\ D = 3
  /\ steps = 2
  /\ op = "y()"
  /\ m_components = Vec(<<1, 1, 0>>)
  /\ ret = Returns(R(1))

\* the components of v in the order D-1..0
Reversed(v) == [i \in 1..Len(v) |-> v[Len(v) + 1 - i]]

\* what a traversal has read so far: the first Len(args) components in
\* index order (forward) or the last Len(args) in reverse order, and all D
\* of them, no more, when the iterator equals end() or rend()
C17_Visited ==
  /\ op = "begin" =>
       /\ ret.pos \in 0..D
       /\ args = SubSeq(m_components, 1, ret.pos)
       /\ ret = End(m_components) <=> args = m_components
       /\ D = 0 => Begin(m_components) = End(m_components)
  /\ op = "rbegin" =>
       /\ ret.base \in 0..D
       /\ args = SubSeq(Reversed(m_components), 1, D - ret.base)
       /\ ret = REnd(m_components) <=> args = Reversed(m_components)
       /\ D = 0 => RBegin(m_components) = REnd(m_components)

\* a call of begin() or rbegin() starts at the first (last) component with
\* nothing read, whatever was traversed before; a round of a loop reads the
\* next component and advances by one
C17_Step ==
  /\ (op # "begin" /\ op' = "begin") => (ret' = Begin(m_components) /\ args' = <<>>)
  /\ (op # "rbegin" /\ op' = "rbegin") => (ret' = RBegin(m_components) /\ args' = <<>>)
  /\ (op = "begin" /\ op' = "begin") =>
       /\ ret'.pos = ret.pos + 1
       /\ args' = Append(args, Index(m_components, ret.pos))
  /\ (op = "rbegin" /\ op' = "rbegin") =>
       /\ ret'.base = ret.base - 1
       /\ args' = Append(args, Index(m_components, ret.base - 1))

\* C17: a traversal from begin() reads the D components in the order
\* 0..D-1 and one from rbegin() in the order D-1..0; the iterator equals
\* end() (rend()) exactly when all D have been read, at once when D = 0;
\* every call of begin() or rbegin() starts a fresh traversal; and a
\* traversal that is not abandoned reaches end() (rend()).
C17_Iteration ==
  /\ []C17_Visited
  /\ [][C17_Step]_vars
  /\ (op = "begin") ~> (op # "begin" \/ ret = End(m_components))
  /\ (op = "rbegin") ~> (op # "rbegin" \/ ret = REnd(m_components))

\* the second traversal of a vector with two different components, a
\* reverse one, has reached rend() after reading components 1 and 0
C17_Witness ==
  /\ D = 2
  /\ steps = 2
  /\ op = "rbegin"
  /\ m_components[1] # m_components[2]
  /\ ret = REnd(m_components)
  /\ args = <<m_components[2], m_components[1]>>

RECURSIVE Joined(_, _, _)
\* the components i, i + 1, ... of v converted and separated by ", "
Joined(t, v, i) ==
  IF i > Len(v) THEN <<>>
  ELSE IF i = Len(v) THEN ToStringT(t, v[i])
  ELSE ToStringT(t, v[i]) \o <<",", " ">> \o Joined(t, v, i + 1)

\* the number of characters c in str
Count(str, c) == Cardinality({i \in 1..Len(str) : str[i] = c})

\* the conversions and renderings of some values
C18_Examples ==
  /\ ToStringT("double", R(1)) = <<"1", ".", "0", "0", "0", "0", "0", "0">>
  /\ ToStringT("double", <<-5, 2>>) = <<"-", "2", ".", "5", "0", "0", "0", "0", "0">>
  /\ ToStringT("double", <<1, 3>>) = <<"0", ".", "3", "3", "3", "3", "3", "3">>
  /\ ToStringT("unsigned char", R(16)) = <<"1", "6">>
  /\ toString("unsigned char", <<R(1), R(0)>>) = Returns(<<"<", "1", ",", " ", "0", ">">>)

\* C18 as stated: for every dimension D, toString() returns '<', the D
\* components in index order, each converted by std::to_string, with ', '
\* between two of them, then '>'.
C18_Original ==
  op = "toString" =>
    ret = Returns(<<"<">> \o Joined(T, m_components, 1) \o <<">">>)

\* the claim for the dimensions D >= 1: the rendering above, with exactly
\* D - 1 separators
C18_PositiveDimension ==
  /\ (op = "toString" /\ D >= 1) =>
       /\ ret = Returns(<<"<">> \o Joined(T, m_components, 1) \o <<">">>)
       /\ Count(ret.val, ",") = D - 1
  /\ C18_Examples

\* the positions at which the components of a and b, compared in the type
\* t, are not equal
Differ(t, a, b) == {i \in 1..Len(a) : ~TEq(t, a[i], b[i])}

\* the least element of a non-empty set of positions
First(S) == CHOOSE i \in S : \A j \in S : i <= j

\* C19: compare of a vector of dimension D with one of dimension D2: when
\* D # D2 the vector of the smaller dimension compares less (-1 for
\* D < D2, 1 for D > D2) whatever the components; when D = D2 the first
\* position at which the components are not equal decides, the vector
\* with the smaller component there comparing less; and the result is 0
\* exactly when the components are equal at every position.
C19_Compare ==
  op = "compare" =>
    LET other == args[1]
        t == CommonType(T, args[2])
    IN  IF D # Len(other)
        THEN ret.val = IF D < Len(other) THEN -1 ELSE 1
        ELSE /\ ret.val = 0 <=> Differ(t, m_components, other) = {}
             /\ Differ(t, m_components, other) # {} =>
                  LET i == First(Differ(t, m_components, other))
                  IN  /\ TLt(t, m_components[i], other[i]) => ret.val = -1
                      /\ TLt(t, other[i], m_components[i]) => ret.val = 1

\* two vectors of dimension 2 that differ at position 1 only: the left one
\* has the greater component there
C19_Witness ==
  /\ op = "compare"
  /\ D = 2
  /\ Len(args[1]) = 2
  /\ m_components = <<R(1), R(1)>>
  /\ args[1] = <<R(1), R(0)>>
  /\ ret = Returns(1)

\* a and b have the same components but possibly the one at position i
SameBut(a, b, i) == \A j \in 1..Len(a) : j # i => a[j] = b[j]

\* C20, each step: a copy construction or copy assignment from the second
\* object leaves the object with the second object's components, all D of
\* them, and the second object as it was; a self-assignment leaves the
\* object as it was; a later write to one of the two objects changes the
\* component written and nothing of the other object.
C20_Step ==
  /\ op' \in {"Vector(const Vector &)", "operator=(w)"} =>
       /\ Len(m_components') = D
       /\ \A i \in 1..D : m_components'[i] = other_components[i]
       /\ other_components' = other_components
  /\ (op' = "operator=" /\ args'[2]) =>
       /\ m_components' = m_components
       /\ other_components' = other_components
  /\ op' = "operator[]=" =>
       /\ other_components' = other_components
       /\ m_components'[args'[1] + 1] = args'[2]
       /\ SameBut(m_components', m_components, args'[1] + 1)
  /\ op' = "w: operator[]=" =>
       /\ m_components' = m_components
       /\ other_components'[args'[1] + 1] = args'[2]
       /\ SameBut(other_components', other_components, args'[1] + 1)

\* C20: copy construction and copy assignment copy the components, and the
\* two objects share nothing afterwards (every step is as C20_Step says).
C20_DeepCopy == [][C20_Step]_vars

\* after v = w the second object was written: the two objects differ, the
\* copy still holds what was assigned
C20_Witness ==
  /\ D = 2
  /\ steps = 2
  /\ op = "w: operator[]="
  /\ m_components = <<R(1), R(1)>>
  /\ other_components = <<R(1), R(0)>>

\* the rounds made by the loops of the call recorded in op (a call without
\* a loop makes none)
Rounds ==
  CASE op = "toString" -> ToStringRounds(m_components, 0)
    [] op = "Vector(initializer_list)" -> InitListRounds(args[1], D)
    [] op \in {"operator==", "operator!="} ->
         EqualRounds(T, m_components, args[1], 0)
    [] op = "compare" ->
         CompareRounds(CommonType(T, args[2]), m_components, args[1], 0)
    [] op = "operator=" -> IF args[2] THEN 0 ELSE ForRounds(D, 0)
    [] op \in {"idle", "operator[]", "at", "operator[]=", "at=", "x(newX)",
               "y(newY)", "Vector2D::rotate"} -> 0
    [] OTHER -> ForRounds(D, 0)

\* C21 as stated: every operation ends after at most D rounds of its loop,
\* for every dimension D including D = 0 and every argument.
C21_Original == Rounds <= D

\* the bound holds for every call except toString() on a vector of
\* dimension 0, whose loop runs up to the wrapped bound D - 1 = SIZE_MAX
C21_BoundedExceptToStringOfZeroDim ==
  /\ (op = "toString" /\ D = 0) \/ Rounds <= D
  /\ op = "toString" /\ D > 0 => Rounds = D - 1

\* the value instance k has when thread k alone has made the first n rounds
\* of its call, starting from the value the instance had at the start
RECURSIVE AfterRounds(_, _)
AfterRounds(frame, n) ==
  IF n = 0 THEN frame.start
  ELSE InPlaceRound(frame.fn, T, AfterRounds(frame, n - 1), frame.other, n - 1)

\* C22: operations running concurrently on distinct instances need no
\* coordination: under every interleaving of the per-component rounds of
\* the two threads' calls, each instance holds at every moment what its own
\* thread's rounds so far have made of it, and when both calls have
\* returned each instance has the value its call gives when run alone (so
\* the same as running the two calls one after the other, in either order).
C22_NoCoordination ==
  op = "threads" =>
    /\ m_components = AfterRounds(args[1], args[1].i)
    /\ other_components = AfterRounds(args[2], args[2].i)
    /\ ThreadsDone =>
         /\ m_components =
              InPlaceCall(args[1].fn, T, args[1].start, args[1].other)
         /\ other_components =
              InPlaceCall(args[2].fn, T, args[2].start, args[2].other)

\* C22 witness: both calls have returned after making two rounds each on
\* two-dimensional instances, and both instances have changed.
C22_Witness ==
  /\ ThreadsDone
  /\ D = 2
  /\ args[2].fn # "operator[]="
  /\ m_components # args[1].start
  /\ other_components # args[2].start

\* a vector with a component that is not 0
NonZero(v) == \E i \in 1..Len(v) : v[i] # Zero

AllFinite(v) == \A i \in 1..Len(v) : IsFinite(v[i])

\* normalize((3,4)) == (0.6, 0.8) and normalize((2,-3,-6)) == (2/7, -3/7,
\* -6/7) for T = double
C23_Examples ==
  /\ Normalize("double", Vec(<<3, 4>>)) = Returns(<<<<3, 5>>, <<4, 5>>>>)
  /\ Normalize("double", Vec(<<2, -3, -6>>))
       = Returns(<<<<2, 7>>, <<-3, 7>>, <<-6, 7>>>>)

\* C23 as stated: for every non-zero vector v, normalize(v) equals v divided
\* component-wise by magn(v) and the magnitude of the result is 1, with the
\* examples (3,4) -> (0.6, 0.8) and (2,-3,-6) -> (2/7, -3/7, -6/7).
C23_Original ==
  /\ op = "normalize" /\ NonZero(m_components) =>
       /\ ret.kind = "value"
       /\ OperatorEqual(T, ret.val,
                        OperatorDivide(T, m_components, Magn(T, m_components)))
       /\ TEq(T, Magn(T, ret.val), R(1))
  /\ C23_Examples

\* what the code does for an integral T: (3,4) normalizes to (0,0), and the
\* non-zero vector (16,0) has the magnitude 0 (16 * 16 wraps), so that
\* normalize() divides by zero
C23_Integral ==
  /\ Normalize("unsigned char", Vec(<<3, 4>>)) = Returns(Vec(<<0, 0>>))
  /\ Magn("unsigned char", Vec(<<16, 0>>)) = Zero
  /\ Normalize("unsigned char", Vec(<<16, 0>>)) = Undefined

\* the claim for T = double and finite components: a non-zero vector
\* normalizes to v / magn(v), whose magnitude is 1
C23_FiniteDouble ==
  /\ op = "normalize" /\ T = "double" /\ NonZero(m_components)
       /\ AllFinite(m_components) =>
       /\ ret = Returns(OperatorDivide(T, m_components, Magn(T, m_components)))
       /\ OperatorEqual(T, ret.val, ret.val)
       /\ Magn(T, ret.val) = R(1)
  /\ C23_Examples
  /\ C23_Integral

\* an angle (as a multiple of pi, or symbolic) lies in the half-open range
\* (-pi, pi]: a symbolic angle is that of a direction off the axes, strictly
\* inside the range
InHalfOpenRange(a) ==
  /\ ~IsNaN(a)
  /\ Len(a) = 2 => IsFinite(a) /\ -(a[2] * a[2]) < a[1] * a[2] /\ Abs(a[1]) <= Abs(a[2])

\* an angle is > 0 (1), < 0 (-1) or 0 (0)
AngleSign(a) ==
  IF Len(a) = 3 THEN Sign(a[1])
  ELSE IF IsNaN(a) THEN 0
  ELSE Sign(a[1]) * Sign(a[2]) * Sign(a[2])

\* the values of a double component: 0 (either zero), > 0, < 0
IsZeroValue(x) == x = Zero \/ x = NegZero

Positive(x) == ~IsNaN(x) /\ ~IsZeroValue(x) /\ ~SignBit(x)

Negative(x) == ~IsNaN(x) /\ ~IsZeroValue(x) /\ SignBit(x)

\* C24 as stated: angle() returns the four-quadrant arctangent of (y, x),
\* always in the half-open range (-pi, pi]: it has the sign of y when
\* y != 0, is 0 on the positive x-axis and +pi (never -pi) on the negative
\* x-axis.
C24_Original ==
  op = "Vector2D::angle" =>
    LET x == GetX(m_components)
        y == GetY(m_components)
    IN  /\ ret = Returns(Atan2(y, x))
        /\ InHalfOpenRange(ret.val)
        /\ ~IsZeroValue(y) =>
             AngleSign(ret.val) = (IF Positive(y) THEN 1 ELSE -1)
        /\ IsZeroValue(y) /\ Positive(x) => IsZeroValue(ret.val)
        /\ IsZeroValue(y) /\ Negative(x) => ret.val = PiTimes(1, 1)

\* what angle() does return: std::atan2(y, x), a NaN when a component is a
\* NaN and otherwise a value of the closed range [-pi, pi] with the sign
\* bit of y; on the positive x-axis +-0, on the negative x-axis +pi for
\* y = +0.0 and -pi for y = -0.0; for a finite y != 0 and a finite x the
\* result is not 0 and has the sign of y
C24_Atan2 ==
  op = "Vector2D::angle" =>
    LET x == GetX(m_components)
        y == GetY(m_components)
        a == ret.val
    IN  /\ ret = Returns(Atan2(y, x))
        /\ IsNaN(a) <=> (IsNaN(x) \/ IsNaN(y))
        /\ ~IsNaN(a) =>
             /\ Len(a) = 2 => IsFinite(a) /\ Abs(a[1]) <= Abs(a[2])
             /\ Len(a) = 2 => SignBit(a) = SignBit(y)
             /\ Len(a) = 3 => AngleSign(a) = (IF Positive(y) THEN 1 ELSE -1)
             /\ IsZeroValue(y) /\ Positive(x) => a = y
             /\ IsZeroValue(y) /\ Negative(x) =>
                  a = (IF y = Zero THEN PiTimes(1, 1) ELSE PiTimes(-1, 1))
             /\ IsFinite(x) /\ IsFinite(y) /\ ~IsZeroValue(y) =>
                  AngleSign(a) = (IF Positive(y) THEN 1 ELSE -1)

IsDigit(c) == c \in {"0", "1", "2", "3", "4", "5", "6", "7", "8", "9"}

RECURSIVE DigitsFrom(_, _)
\* the number of digits of str that follow each other from position i on
DigitsFrom(str, i) ==
  IF i > Len(str) \/ ~IsDigit(str[i]) THEN 0 ELSE 1 + DigitsFrom(str, i + 1)

RECURSIVE FractionLengths(_, _)
\* for every decimal point of str from position i on, in order, the number
\* of digits after it
FractionLengths(str, i) ==
  IF i > Len(str) THEN <<>>
  ELSE IF str[i] = "." THEN <<DigitsFrom(str, i + 1)>> \o FractionLengths(str, i + 1)
  ELSE FractionLengths(str, i + 1)

\* the text of the integer n followed by a point and k zeros
Fixed(n, k) == Digits(n) \o <<".">> \o [i \in 1..k |-> "0"]

\* "<a, b>" and "<a, b, c>" for the texts a, b, c
Angle2(a, b) == <<"<">> \o a \o <<",", " ">> \o b \o <<">">>

Angle3(a, b, c) == <<"<">> \o a \o <<",", " ">> \o b \o <<",", " ">> \o c \o <<">">>

Accessed ==
  CASE op = "toString" -> ToStringReads(m_components, 0)
    [] op \in {"operator[]", "operator[]="} -> {args[1]}
    [] op \in {"at", "at="} -> AtAccesses(m_components, args[1])
    [] op = "x(newX)" -> {0}
    [] op = "y(newY)" -> {1}
    [] op = "Vector2D::rotate" -> {0, 1}
    [] op = "idle" -> {}
    [] OTHER -> LoopAccesses(Rounds)

\* C26 as stated: for every dimension D including D = 0, no operation called
\* with valid arguments reads or writes the component storage at an index
\* outside 0..D-1.
C26_Original == Accessed \subseteq 0..(D - 1)

\* every call except toString() on a vector of dimension 0 stays inside
\* 0..D-1; that call reads m_components[0] of an empty array
C26_InBoundsExceptToStringOfZeroDim ==
  /\ (op = "toString" /\ D = 0) \/ Accessed \subseteq 0..(D - 1)
  /\ op = "toString" /\ D = 0 => 0 \in Accessed
  /\ op = "toString" /\ D > 0 => Accessed = 0..(D - 1)

\* the calls that write one component, and the index and the value of the
\* write recorded for the call
WriteOps == {"operator[]=", "at=", "x(newX)", "y(newY)", "z(newZ)", "*it="}

WrittenIndex(o, a) ==
  CASE o = "x(newX)" -> 0
    [] o = "y(newY)" -> 1
    [] o = "z(newZ)" -> 2
    [] OTHER -> a[1]

WrittenValue(o, a) ==
  IF o \in {"x(newX)", "y(newY)", "z(newZ)"} THEN a[1] ELSE a[2]

C27_Step ==
  op' \in WriteOps /\ WrittenIndex(op', args') < D =>
    /\ D' = D
    /\ Len(m_components') = D
    /\ m_components'[WrittenIndex(op', args') + 1] = WrittenValue(op', args')
    /\ \A j \in 1..D :
         j # WrittenIndex(op', args') + 1 => m_components'[j] = m_components[j]
    /\ op' = "at=" => ret' = NoRet

\* C27: a component write with a valid index i < D, through v[i] = a,
\* v.at(i) = a, a named setter, or a non-const (forward or reverse) iterator
\* positioned at i, sets component i to a and leaves every other component
\* and the dimension unchanged.
C27_WriteFrame == [][C27_Step]_vars

\* C27 witness: a write through a reverse iterator that a loop had moved to
\* the first component of a two-dimensional vector changed that component
\* (to 1), the second component holding another value.
C27_Witness ==
  /\ op = "*it="
  /\ ret.kind = "reverse_iterator"
  /\ D = 2
  /\ args[1] = 0
  /\ m_components[1] = R(1)
  /\ m_components[2] # R(1)

\* the non-mutating operations
NonMutating ==
  {"operator+", "operator-", "operator*", "operator/", "operator==",
   "operator!=", "operator-()", "operator+()", "dot", "magn", "normalize",
   "numDimensions", "isZero", "toString", "compare", "cross", "angle",
   "rotate", "Vector2D::angle", "Vector2D::rotate"}

C28_Step ==
  /\ op' \in NonMutating =>
       /\ m_components' = m_components
       /\ other_components' = other_components
       /\ D' = D
  /\ op' \in {"at", "at="} /\ ret'.kind = "throw" =>
       /\ m_components' = m_components
       /\ D' = D

\* C28: every non-mutating operation (binary +, -, *, /, ==, !=, unary -
\* and +, dot, magn, normalize, isZero, numDimensions, toString, compare,
\* cross, angle, every rotate) leaves the receiver and the vector argument
\* as they were, and a checked access at(i), read or write, that raises
\* out-of-range leaves the vector as it was.
C28_OperandsUnchanged == [][C28_Step]_vars

\* C28 witness: normalize() was called on a two-dimensional vector and
\* returned a vector that differs from the receiver, which the second
\* (operand) object differs from as well.
C28_Witness ==
  /\ op = "normalize"
  /\ D = 2
  /\ ret.kind = "value"
  /\ ret.val # m_components
  /\ NonZero(m_components)
  /\ other_components # m_components

\* the step is the call v.fn(v)
SelfCall(fn) == op' = fn /\ args' = <<1>>

\* the call v.fn(w) with w a distinct vector whose components equal v's
DistinctEqual(fn) ==
  IF fn = "operator=" THEN OperatorAssign(m_components, m_components, FALSE).comp
  ELSE InPlaceCall(fn, T, m_components, m_components)

\* v += v doubles every component, v -= v makes every component 0, v = v
\* keeps v
C29_OriginalStep ==
  /\ SelfCall("operator+=") =>
       \A i \in 1..D : TEq(T, m_components'[i], TMul(T, R(2), m_components[i]))
  /\ SelfCall("operator-=") =>
       \A i \in 1..D : TEq(T, m_components'[i], Zero)
  /\ SelfCall("operator=") => m_components' = m_components

\* C29 as stated: v += v leaves every component equal to twice its previous
\* value, v -= v leaves every component 0 and v = v leaves v unchanged.
C29_Original == [][C29_OriginalStep]_vars

C29_Step ==
  /\ \A fn \in RefFns :
       SelfCall(fn) =>
         /\ m_components' = DistinctEqual(fn)
         /\ other_components' = other_components
  /\ SelfCall("operator+=") =>
       \A i \in 1..D :
         /\ m_components'[i] = TMul(T, R(2), m_components[i])
         /\ ~IsNaN(m_components[i]) =>
              TEq(T, m_components'[i], TMul(T, R(2), m_components[i]))
  /\ SelfCall("operator-=") =>
       \A i \in 1..D :
         /\ IsFinite(m_components[i]) => m_components'[i] = Zero
         /\ ~IsFinite(m_components[i]) => IsNaN(m_components'[i])
  /\ SelfCall("operator=") => m_components' = m_components

\* C29: with the right operand the same object as the left one, the result
\* is the one a distinct vector with equal components gives: v += v stores
\* the product of 2 and the previous value in every component (equal to it
\* under == unless it is NaN), v -= v stores 0 in every component whose
\* previous value is finite and NaN in the others, and v = v leaves v as
\* it was.
C29_SelfOperand == [][C29_Step]_vars

\* C29 witness: v += v was called on the two-dimensional vector {16, 1}
\* of unsigned chars, both components now doubled.
C29_Witness ==
  /\ op = "operator+="
  /\ args = <<1>>
  /\ T = "unsigned char"
  /\ D = 2
  /\ m_components = <<R(32), R(2)>>

\* every vector of the types and dimensions modelled, with its type
AllVectors ==
  {<<c, tc>> : c \in UNION {Vectors("double", d) : d \in 0..MaxDim},
               tc \in {"double"}}
    \cup {<<c, tc>> : c \in UNION {Vectors("unsigned char", d) : d \in 0..MaxDim},
                      tc \in {"unsigned char"}}

\* compare(a, b) == -compare(b, a), a the object and b the operand of the
\* call made
Antisymmetric == Compare(args[2], T, args[1], m_components) = -ret.val

\* compare(a, b) < 0 and compare(b, c) < 0 imply compare(a, c) < 0, for
\* every c
Transitive ==
  \A c \in AllVectors :
    ret.val < 0 /\ Compare(args[2], c[2], args[1], c[1]) < 0 =>
      Compare(T, c[2], m_components, c[1]) < 0

\* the components of a and b at the first position where they are not
\* equal are unordered (one is a NaN)
UnorderedDecides ==
  LET other == args[1]
      t == CommonType(T, args[2])
  IN  /\ D = Len(other)
      /\ Differ(t, m_components, other) # {}
      /\ LET i == First(Differ(t, m_components, other))
         IN  IsNaN(m_components[i]) \/ IsNaN(other[i])

\* C30 as stated: compare(a, b) == -compare(b, a); compare(a, b) == 0 iff
\* a and b have the same dimension and the same components; compare is
\* transitive.
C30_Original ==
  op = "compare" =>
    /\ Antisymmetric
    /\ ret.val = 0 <=> (D = Len(args[1]) /\ m_components = args[1])
    /\ Transitive

\* C30: compare(a, b) == 0 iff a and b have the same dimension and every
\* component of a == the component of b at its position; compare(a, b) < 0
\* and compare(b, c) < 0 imply compare(a, c) < 0; and compare(a, b) ==
\* -compare(b, a) unless a and b have the same dimension and a NaN at the
\* first position where their components are not equal, in which case
\* compare(a, b) and compare(b, a) are both 1.
C30_Order ==
  op = "compare" =>
    /\ ret.val \in {-1, 0, 1}
    /\ ret.val = 0 <=>
         (D = Len(args[1])
            /\ Differ(CommonType(T, args[2]), m_components, args[1]) = {})
    /\ Transitive
    /\ ~UnorderedDecides => Antisymmetric
    /\ UnorderedDecides =>
         /\ ret.val = 1
         /\ Compare(args[2], T, args[1], m_components) = 1

\* C30 witness: two vectors of dimension 2 whose components are ordered one
\* way at position 1 and the other way at position 2: the left one compares
\* less.
C30_Witness ==
  /\ op = "compare"
  /\ D = 2
  /\ m_components = <<R(0), R(1)>>
  /\ args[1] = <<R(1), R(0)>>
  /\ ret = Returns(-1)

====
